---- MODULE Spec2Model ----
(***************************************************************************)
(* A model of the jobcontrol build engine: JobControl (core.py) driving    *)
(* the in-memory storage (ext/memory.py) over a job configuration          *)
(* (config.py).                                                            *)
(*                                                                         *)
(* Python values are modelled as strings ("None" is None), build ids and   *)
(* timestamps as integers.  An optional result (a value or None) whose     *)
(* value is a record is modelled as a sequence of length 0 or 1.  What an  *)
(* engine call returns is a tagged record: None or a BuildInfo instance.   *)
(*                                                                         *)
(* The storage operators take the field updates of MemoryStorage; the      *)
(* keyword names are those JobControl passes (config, exception_tb).       *)
(*                                                                         *)
(* A log record is an opaque value: the handler and the storage pass it on  *)
(* without looking into it.                                                *)
(*                                                                         *)
(* A job's callable is external code: once invoked it may call back into   *)
(* the engine any number of times (the same operations a top-level caller  *)
(* has) and then returns a value, raises SkipBuild or raises an exception. *)
(***************************************************************************)
EXTENDS Integers, Sequences, FiniteSets, TLC

VARIABLES
    config,      \* JobControlConfig._jobs: the list of job configurations
    builds,      \* MemoryStorage._builds: build id -> build record
    builds_seq,  \* MemoryStorage._builds_seq: the next build id
    log_messages, \* MemoryStorage._log_messages: build id -> list of messages
    created,     \* the ids storage.create_build has returned, in order
    ctx_stack,   \* globals._execution_ctx_stack
    frames,      \* the active _run_build invocations (the Python call stack)
    clock,       \* datetime.now()
    ret,         \* how the most recent engine call ended
    invoked,     \* build id -> how many times its callable was invoked
    nruns        \* number of _run_build invocations so far

vars == <<config, builds, builds_seq, log_messages, created, ctx_stack, frames,
          clock, ret, invoked, nruns>>

----------------------------------------------------------------------------
(* Bounds of the model. *)

MaxBuilds == 2
MaxRuns == 2
(* dependency entries in all, in the configurations of the graph operations *)
MaxEdges == 3
(* messages stored for a build when code other than the engine logs *)
MaxLogs == 2
(* rows of a progress table *)
MaxRows == 3
(* for the configurations explored by top-level calls only *)
MaxPinBuilds == 3
MaxPinRuns == 3
MaxDepsBuilds == 3
MaxDepsRuns == 4
(* for the configuration of nested runs *)
MaxNestBuilds == 2
MaxNestRuns == 3
(* contexts on the stack when a callable pushes one of its own *)
MaxStack == 3

(* 'start_time': None / 'end_time': None *)
NoTime == 0
(* a call that returns None where a build id could be returned *)
NoBuild == -1

----------------------------------------------------------------------------
(* Argument trees: ordinary values, Retval placeholders, nested lists. *)

Lit(v) == [t |-> "lit", v |-> v, items |-> <<>>]
Retval(job_id) == [t |-> "retval", v |-> job_id, items |-> <<>>]
List(xs) == [t |-> "list", v |-> "", items |-> xs]
ArgError(exc) == [t |-> "error", v |-> exc, items |-> <<>>]

(* A job configuration as BuildConfig.__getitem__ presents it: every key   *)
(* with its default applied.                                               *)
BuildConfig(id, function, args, kwargs, dependencies, pinned_builds) ==
    [id |-> id, function |-> function, args |-> args, kwargs |-> kwargs,
     dependencies |-> dependencies, pinned_builds |-> pinned_builds,
     cleanup_function |-> "None"]

(* A chain A <- B <- C, C depending on both A and B. *)
CfgChain ==
    << BuildConfig("A", "mod:run", <<>>, <<>>, <<>>, <<>>),
       BuildConfig("B", "mod:run", <<Retval("A")>>, <<>>, <<"A">>, <<>>),
       BuildConfig("C", "mod:run", <<Lit("1"), List(<<Retval("B")>>)>>,
                   [k |-> Retval("A")], <<"A", "B">>, <<>>) >>

(* Jobs that cannot run: D names no function, E references a job that is   *)
(* not among its dependencies, F depends on a job id that is not defined.  *)
CfgBroken ==
    << BuildConfig("D", "", <<>>, <<>>, <<>>, <<>>),
       BuildConfig("E", "mod:run", <<List(<<Retval("A")>>)>>, <<>>, <<>>, <<>>),
       BuildConfig("F", "mod:run", <<>>, <<>>, <<"Z">>, <<>>) >>

(* Configurations explored by top-level calls only.  CfgPinned: P takes    *)
(* the return value of A from the pinned build 0, U from A's latest        *)
(* successful build.  CfgDeps: J depends on A and on B, in this order.     *)
CfgPinned ==
    << BuildConfig("A", "mod:run", <<>>, <<>>, <<>>, <<>>),
       BuildConfig("P", "mod:run", <<List(<<Retval("A")>>)>>, <<>>, <<"A">>,
                   [A |-> 0]),
       BuildConfig("U", "mod:run", <<Retval("A")>>, [k |-> Retval("A")],
                   <<"A">>, <<>>) >>

CfgDeps ==
    << BuildConfig("A", "mod:run", <<>>, <<>>, <<>>, <<>>),
       BuildConfig("B", "mod:run", <<>>, <<>>, <<>>, <<>>),
       BuildConfig("J", "mod:run", <<>>, <<>>, <<"A", "B">>, <<>>) >>

(* Nested runs: B takes the return value of A. *)
CfgNest ==
    << BuildConfig("A", "mod:run", <<>>, <<>>, <<>>, <<>>),
       BuildConfig("B", "mod:run", <<Retval("A")>>, <<>>, <<"A">>, <<>>) >>

(* A names a cleanup function, B does not. *)
CfgCleanup ==
    << [BuildConfig("A", "mod:run", <<>>, <<>>, <<>>, <<>>)
            EXCEPT !.cleanup_function = "mod:cleanup"],
       BuildConfig("B", "mod:run", <<>>, <<>>, <<>>, <<>>) >>

BuildLimit ==
    IF config = CfgPinned THEN MaxPinBuilds
    ELSE IF config = CfgNest THEN MaxNestBuilds
    ELSE IF config = CfgDeps THEN MaxDepsBuilds
    ELSE MaxBuilds
RunLimit ==
    IF config = CfgPinned THEN MaxPinRuns
    ELSE IF config = CfgNest THEN MaxNestRuns
    ELSE IF config = CfgDeps THEN MaxDepsRuns
    ELSE MaxRuns

Configs == {CfgChain, CfgBroken}

JobIds == {"A", "B", "C", "D", "E", "F", "Z"}
PinJobIds == {"A", "P", "U"}
DepsJobIds == {"A", "B", "J"}
NestJobIds == {"A", "B"}
Max(S) == CHOOSE n \in S : \A m \in S : m <= n
BuildIds == 0 .. (Max({MaxBuilds, MaxPinBuilds, MaxDepsBuilds, MaxNestBuilds}) - 1)

(* What a callable may return, and the exceptions it may raise: E1 is a    *)
(* subclass of Exception, SystemExit (sys.exit() in the callable) derives  *)
(* from BaseException only.                                                *)
RetVals == {"7", "unpicklable"}
UserExcs == {"E1", "SystemExit"}

(* Names that import_object resolves to a callable. *)
Importable == {"mod:run", "mod:cleanup"}
WellFormed == {"mod:run", "mod:cleanup", "mod:missing"}

----------------------------------------------------------------------------
(* MemoryStorage (ext/memory.py). *)

(* The ids of S in ascending order: sorted(x, key=lambda y: y[1]['id']). *)
RECURSIVE sorted(_)
sorted(S) ==
    IF S = {} THEN <<>>
    ELSE LET m == CHOOSE x \in S : \A y \in S : x <= y
         IN <<m>> \o sorted(S \ {m})

reversed(s) == [i \in 1 .. Len(s) |-> s[Len(s) + 1 - i]]

(* One filter of get_job_builds: f is "None" (no filter), "True" or        *)
(* "False"; the test is x[key] is f.                                       *)
filter_matches(f, value) == f = "None" \/ (value <=> (f = "True"))

(* all(f(build) for f in filters) *)
filters_all(build, filters) ==
    /\ build.job_id = filters.job_id
    /\ filter_matches(filters.started, build.started)
    /\ filter_matches(filters.finished, build.finished)
    /\ filter_matches(filters.success, build.success)
    /\ filter_matches(filters.skipped, build.skipped)

(* Mutant: the limit counts the builds looked at, not the builds yielded. *)
RECURSIVE get_job_builds_loop_counts_all(_, _, _, _)
RECURSIVE get_job_builds_loop(_, _, _, _)
get_job_builds_loop_counts_all(B, ids, filters, limit) ==
    IF ids = <<>> THEN <<>>
    ELSE IF (IF limit = <<>> THEN FALSE ELSE limit[1] <= 0) THEN <<>>
    ELSE (IF filters_all(B[Head(ids)], filters) THEN <<B[Head(ids)]>> ELSE <<>>)
         \o get_job_builds_loop(B, Tail(ids), filters,
                                IF limit = <<>> THEN <<>> ELSE <<limit[1] - 1>>)

(* The loop of get_job_builds over the builds, ids being their ids in the  *)
(* order asked for: it ends when the limit is used up, and every build     *)
(* that passes the filters is yielded and takes one off the limit.  limit  *)
(* is <<>> for None, <<n>> for the integer n.                              *)
get_job_builds_loop(B, ids, filters, limit) ==
    IF ids = <<>> THEN <<>>
    ELSE IF (IF limit = <<>> THEN FALSE ELSE limit[1] <= 0) THEN <<>>
    ELSE IF filters_all(B[Head(ids)], filters)
    THEN <<B[Head(ids)]>>
         \o get_job_builds_loop(B, Tail(ids), filters,
                                IF limit = <<>> THEN <<>> ELSE <<limit[1] - 1>>)
    ELSE get_job_builds_loop(B, Tail(ids), filters, limit)

(* order is 'asc' or 'desc'; any other value raises ValueError. *)
get_job_builds(B, job_id, started, finished, success, skipped, order, limit) ==
    LET asc == sorted(DOMAIN B)
        ordered == IF order = "asc" THEN asc ELSE reversed(asc)
    IN get_job_builds_loop(B, ordered,
                           [job_id |-> job_id, started |-> started,
                            finished |-> finished, success |-> success,
                            skipped |-> skipped],
                           limit)

(* Mutant: the new record is created as already started. *)
storage_create_build_started(B, build_id, job_id, cfg) ==
    (build_id :> [id |-> build_id, job_id |-> job_id,
                  start_time |-> NoTime, end_time |-> NoTime,
                  started |-> TRUE, finished |-> FALSE,
                  success |-> FALSE, skipped |-> FALSE,
                  config |-> cfg,
                  retval |-> "None", exception |-> "None",
                  exception_tb |-> "None",
                  progress_info |-> <<>>]) @@ B

storage_create_build(B, build_id, job_id, cfg) ==
    (build_id :> [id |-> build_id, job_id |-> job_id,
                  start_time |-> NoTime, end_time |-> NoTime,
                  started |-> FALSE, finished |-> FALSE,
                  success |-> FALSE, skipped |-> FALSE,
                  config |-> cfg,
                  retval |-> "None", exception |-> "None",
                  exception_tb |-> "None",
                  progress_info |-> <<>>]) @@ B

(* <<>> stands for NotFound. *)
storage_get_build(B, build_id) ==
    IF build_id \notin DOMAIN B THEN <<>> ELSE <<B[build_id]>>

(* delete_build pops build_id from _builds and from _log_messages: B is    *)
(* either of the two.                                                      *)
delete_build(B, build_id) ==
    [i \in (DOMAIN B) \ {build_id} |-> B[i]]

(* Mutant: the counter returns its value and does not advance. *)
builds_seq_next_stuck(seq) == [value |-> seq, seq |-> seq]

(* self._builds_seq.next(): the value returned and the counter after it. *)
builds_seq_next(seq) == [value |-> seq, seq |-> seq + 1]

(* A logging.LogRecord.  The handler and the storage pass it on as it is:  *)
(* what it says is left out.                                               *)
LogRecord == "LogRecord"

(* log_message appends to the list of build_id, a list that is empty when  *)
(* nothing was logged for build_id (a defaultdict).                        *)
log_message(L, build_id, record) ==
    [k \in DOMAIN L \cup {build_id} |->
        IF k = build_id
        THEN Append(IF build_id \in DOMAIN L THEN L[build_id] ELSE <<>>,
                    [build_id |-> build_id, record |-> record])
        ELSE L[k]]

(* Mutant: the start time is stored, the started flag is not. *)
start_build_no_flag(B, build_id, now) ==
    [B EXCEPT ![build_id] = [@ EXCEPT !.start_time = now]]

(* Called on a stored build only; NotFound is decided by the caller. *)
start_build(B, build_id, now) ==
    [B EXCEPT ![build_id] = [@ EXCEPT !.started = TRUE, !.start_time = now]]

(* Mutant: a failure leaves the return value of an earlier outcome. *)
finish_build_keeps_retval(B, build_id, success, skipped, retval, exception, exception_tb, now) ==
    [B EXCEPT ![build_id] =
        [@ EXCEPT !.finished = TRUE, !.end_time = now,
                  !.success = success, !.skipped = skipped,
                  !.retval = IF success THEN retval ELSE @,
                  !.exception = exception,
                  !.exception_tb = exception_tb]]

(* Mutant: the return value is not stored. *)
finish_build_drops_retval(B, build_id, success, skipped, retval, exception, exception_tb, now) ==
    [B EXCEPT ![build_id] =
        [@ EXCEPT !.finished = TRUE, !.end_time = now,
                  !.success = success, !.skipped = skipped,
                  !.exception = exception,
                  !.exception_tb = exception_tb]]

(* Mutant: the skipped flag is not stored. *)
finish_build_drops_skipped(B, build_id, success, skipped, retval, exception, exception_tb, now) ==
    [B EXCEPT ![build_id] =
        [@ EXCEPT !.finished = TRUE, !.end_time = now,
                  !.success = success,
                  !.retval = retval, !.exception = exception,
                  !.exception_tb = exception_tb]]

finish_build(B, build_id, success, skipped, retval, exception, exception_tb, now) ==
    [B EXCEPT ![build_id] =
        [@ EXCEPT !.finished = TRUE, !.end_time = now,
                  !.success = success, !.skipped = skipped,
                  !.retval = retval, !.exception = exception,
                  !.exception_tb = exception_tb]]

(* report_build_progress on a stored build (NotFound is decided by the      *)
(* caller): the entry of the group is set or replaced.                      *)
report_build_progress(B, build_id, current, total, group_name, status_line) ==
    LET entry == [current |-> current, total |-> total,
                  status_line |-> status_line]
        info == B[build_id].progress_info
    IN [B EXCEPT ![build_id] =
          [@ EXCEPT !.progress_info =
              [g \in DOMAIN info \cup {group_name} |->
                   IF g = group_name THEN entry ELSE info[g]]]]

(* The storage contract's "fetch the latest successful build for a job":   *)
(* the newest build that is started, finished, successful and not skipped. *)
get_latest_successful_build(B, job_id) ==
    get_job_builds(B, job_id, "True", "True", "True", "False", "desc", <<1>>)

(* Whether the backend can persist a return value (a value that cannot be  *)
(* serialized makes finish_build fail).                                    *)
storage_accepts(retval) == retval # "unpicklable"

----------------------------------------------------------------------------
(* JobControlConfig (config.py). *)

(* <<>> stands for None. *)
get_job_config(cfg, job_id) ==
    LET hits == { i \in 1 .. Len(cfg) : cfg[i].id = job_id }
    IN IF hits = {} THEN <<>>
       ELSE <<cfg[CHOOSE i \in hits : \A k \in hits : i <= k]>>

get_job_deps(cfg, job_id) ==
    LET job == get_job_config(cfg, job_id)
    IN IF job = <<>> THEN <<>> ELSE job[1].dependencies

(* The ids of the jobs that have job_id among their dependencies, in the   *)
(* order of the configuration.                                             *)
RECURSIVE get_job_revdeps_from(_, _, _)
get_job_revdeps_from(cfg, job_id, i) ==
    IF i > Len(cfg) THEN <<>>
    ELSE IF \E k \in DOMAIN cfg[i].dependencies : cfg[i].dependencies[k] = job_id
    THEN <<cfg[i].id>> \o get_job_revdeps_from(cfg, job_id, i + 1)
    ELSE get_job_revdeps_from(cfg, job_id, i + 1)

get_job_revdeps(cfg, job_id) == get_job_revdeps_from(cfg, job_id, 1)

----------------------------------------------------------------------------
(* BuildInfo and JobControl (core.py). *)

descriptive_status(build) ==
    IF ~build.started THEN "CREATED"
    ELSE IF ~build.finished THEN "RUNNING"
    ELSE IF build.success
         THEN (IF build.skipped THEN "SKIPPED" ELSE "SUCCESSFUL")
         ELSE "FAILED"

import_object(name) ==
    IF name \notin WellFormed THEN "ValueError"
    ELSE IF name \notin Importable THEN "AttributeError"
    ELSE "None"

(* The exception the lookup of the callable raises, "None" if it resolves. *)
_get_runner_function(name) ==
    IF name = "None" THEN "TypeError"
    ELSE IF name = "" THEN "ValueError"
    ELSE import_object(name)

(* The exception the dependency check of create_build raises over the      *)
(* remaining dependencies deps, "None" if every one has a successful build.*)
RECURSIVE check_deps(_, _, _)
check_deps(cfg, B, deps) ==
    IF deps = <<>> THEN "None"
    ELSE IF get_job_config(cfg, Head(deps)) = <<>> THEN "TypeError"
    ELSE IF get_latest_successful_build(B, Head(deps)) = <<>>
         THEN "MissingDependencies"
    ELSE check_deps(cfg, B, Tail(deps))

(* The exception create_build(job_id) raises, "None" if it creates a build.*)
create_build_raises(cfg, B, job_id) ==
    IF get_job_config(cfg, job_id) = <<>> THEN "NotFound"
    ELSE check_deps(cfg, B, get_job_deps(cfg, job_id))

(* DEPGRAPH[key] = value on a dict represented as a function. *)
dict_set(d, key, value) ==
    [k \in DOMAIN d \cup {key} |-> IF k = key THEN value ELSE d[k]]

(* jid in list *)
in_list(x, list) == \E i \in DOMAIN list : list[i] = x

(* Mutant: the adjacency list of a job leaves out the dependencies that    *)
(* are processed already.                                                  *)
RECURSIVE _explore_deps_truncating(_, _, _, _)
RECURSIVE _explore_deps_own_list_only(_, _, _, _)
RECURSIVE _explore_each(_, _, _, _)
RECURSIVE _explore_revdeps_edge_only(_, _, _, _, _)
RECURSIVE _explore_revdeps(_, _, _, _, _)
RECURSIVE _explore_deps(_, _, _, _)
_explore_deps_truncating(cfg, complete, jid, st) ==
    IF jid \in st.processed THEN st
    ELSE LET deps == get_job_deps(cfg, jid)
             kept == SelectSeq(deps, LAMBDA d : d \notin st.processed \cup {jid})
             s1 == [processed |-> st.processed \cup {jid},
                    DEPGRAPH |-> dict_set(st.DEPGRAPH, jid, kept)]
             s2 == _explore_each(cfg, complete, deps, s1)
         IN IF complete
            THEN _explore_revdeps(cfg, complete, jid, get_job_revdeps(cfg, jid), s2)
            ELSE s2

(* Mutant: the dependencies of a job are listed and not explored. *)
_explore_deps_own_list_only(cfg, complete, jid, st) ==
    IF jid \in st.processed THEN st
    ELSE LET deps == get_job_deps(cfg, jid)
             s1 == [processed |-> st.processed \cup {jid},
                    DEPGRAPH |-> dict_set(st.DEPGRAPH, jid, deps)]
         IN IF complete
            THEN _explore_revdeps(cfg, complete, jid, get_job_revdeps(cfg, jid), s1)
            ELSE s1

(* _explore_deps(jid), the closure inside _create_job_depgraph, on the     *)
(* state st = [processed, DEPGRAPH] it shares with its other calls.        *)
_explore_deps(cfg, complete, jid, st) ==
    IF jid \in st.processed THEN st
    ELSE LET deps == get_job_deps(cfg, jid)
             s1 == [processed |-> st.processed \cup {jid},
                    DEPGRAPH |-> dict_set(st.DEPGRAPH, jid, deps)]
             s2 == _explore_each(cfg, complete, deps, s1)
         IN IF complete
            THEN _explore_revdeps(cfg, complete, jid, get_job_revdeps(cfg, jid), s2)
            ELSE s2

(* for dep in deps: _explore_deps(dep) *)
_explore_each(cfg, complete, deps, st) ==
    IF deps = <<>> THEN st
    ELSE _explore_each(cfg, complete, Tail(deps),
                       _explore_deps(cfg, complete, Head(deps), st))

(* Mutant: the reverse edge is added and rdid is not explored. *)
_explore_revdeps_edge_only(cfg, complete, jid, revdeps, st) ==
    IF revdeps = <<>> THEN st
    ELSE LET rdid == Head(revdeps)
             g1 == IF rdid \notin DOMAIN st.DEPGRAPH
                   THEN dict_set(st.DEPGRAPH, rdid, <<>>)
                   ELSE st.DEPGRAPH
             g2 == IF ~in_list(jid, g1[rdid])
                   THEN dict_set(g1, rdid, Append(g1[rdid], jid))
                   ELSE g1
         IN _explore_revdeps(cfg, complete, jid, Tail(revdeps),
                             [processed |-> st.processed, DEPGRAPH |-> g2])

(* for rdid in revdeps: the reverse edge is added, then rdid is explored *)
_explore_revdeps(cfg, complete, jid, revdeps, st) ==
    IF revdeps = <<>> THEN st
    ELSE LET rdid == Head(revdeps)
             g1 == IF rdid \notin DOMAIN st.DEPGRAPH
                   THEN dict_set(st.DEPGRAPH, rdid, <<>>)
                   ELSE st.DEPGRAPH
             g2 == IF ~in_list(jid, g1[rdid])
                   THEN dict_set(g1, rdid, Append(g1[rdid], jid))
                   ELSE g1
         IN _explore_revdeps(cfg, complete, jid, Tail(revdeps),
                _explore_deps(cfg, complete, rdid,
                              [processed |-> st.processed, DEPGRAPH |-> g2]))

_create_job_depgraph(cfg, job_id, complete) ==
    _explore_deps(cfg, complete, job_id,
                  [processed |-> {}, DEPGRAPH |-> <<>>]).DEPGRAPH

(* resolve_deps(depgraph, job_id): a depth-first walk along the adjacency  *)
(* lists that fails with CycleDetected when a job reappears on the path    *)
(* being walked, and otherwise lists every job after its dependencies.     *)
RECURSIVE resolve_visit(_, _, _, _)
RECURSIVE resolve_each(_, _, _, _)
resolve_visit(depgraph, jid, path, res) ==
    IF res.raised # "None" THEN res
    ELSE IF jid \in path THEN [raised |-> "CycleDetected", order |-> res.order]
    ELSE IF in_list(jid, res.order) THEN res
    ELSE LET deps == IF jid \in DOMAIN depgraph THEN depgraph[jid] ELSE <<>>
             done == resolve_each(depgraph, deps, path \cup {jid}, res)
         IN IF done.raised # "None" THEN done
            ELSE [raised |-> "None", order |-> Append(done.order, jid)]

resolve_each(depgraph, deps, path, res) ==
    IF deps = <<>> THEN res
    ELSE resolve_each(depgraph, Tail(deps), path,
                      resolve_visit(depgraph, Head(deps), path, res))

resolve_deps(depgraph, job_id) ==
    resolve_visit(depgraph, job_id, {}, [raised |-> "None", order |-> <<>>])

(* JobInfo.has_builds: a build that is started and finished. *)
has_builds(B, job_id) ==
    Len(get_job_builds(B, job_id, "True", "True", "None", "None", "desc", <<1>>)) >= 1

has_successful_builds(B, job_id) ==
    Len(get_job_builds(B, job_id, "True", "True", "True", "False", "desc", <<1>>)) >= 1

(* The loop of is_outdated over the remaining dependencies deps, latest     *)
(* being the job's latest successful build: "True", "False", "None"        *)
(* (unknown), or "TypeError" raised by get_deps for an undefined job.      *)
RECURSIVE is_outdated_deps(_, _, _, _)
(* Mutant: a dependency without a successful build is passed over. *)
is_outdated_deps_skips_unbuilt(cfg, B, deps, latest) ==
    IF deps = <<>> THEN "False"
    ELSE IF get_job_config(cfg, Head(deps)) = <<>> THEN "TypeError"
    ELSE LET _build == get_latest_successful_build(B, Head(deps))
         IN IF _build = <<>> THEN is_outdated_deps(cfg, B, Tail(deps), latest)
            ELSE IF _build[1].end_time > latest.end_time THEN "True"
            ELSE is_outdated_deps(cfg, B, Tail(deps), latest)

is_outdated_deps(cfg, B, deps, latest) ==
    IF deps = <<>> THEN "False"
    ELSE IF get_job_config(cfg, Head(deps)) = <<>> THEN "TypeError"
    ELSE LET _build == get_latest_successful_build(B, Head(deps))
         IN IF _build = <<>> THEN "None"
            ELSE IF _build[1].end_time > latest.end_time THEN "True"
            ELSE is_outdated_deps(cfg, B, Tail(deps), latest)

is_outdated(cfg, B, job_id) ==
    LET latest_build == get_latest_successful_build(B, job_id)
    IN IF latest_build = <<>> THEN "None"
       ELSE is_outdated_deps(cfg, B, get_job_deps(cfg, job_id), latest_build[1])

(* Mutant: an unknown result of is_outdated counts as outdated. *)
get_status_unknown_is_outdated(cfg, B, job_id) ==
    IF ~has_builds(B, job_id) THEN "not_built"
    ELSE LET outdated == is_outdated(cfg, B, job_id)
         IN IF outdated = "TypeError" THEN "TypeError"
            ELSE IF outdated \in {"True", "None"} THEN "outdated"
            ELSE IF has_successful_builds(B, job_id) THEN "success"
            ELSE "failed"

(* The label get_status returns, "TypeError" if is_outdated raises it. *)
get_status(cfg, B, job_id) ==
    IF ~has_builds(B, job_id) THEN "not_built"
    ELSE LET outdated == is_outdated(cfg, B, job_id)
         IN IF outdated = "TypeError" THEN "TypeError"
            ELSE IF outdated = "True" THEN "outdated"
            ELSE IF has_successful_builds(B, job_id) THEN "success"
            ELSE "failed"

(* Mutant: the current build is the build of the outermost context. *)
current_build_outermost(S, B) == storage_get_build(B, S[1].build_id)

(* execution_context.current_build: the build of the top context, read     *)
(* from storage.                                                           *)
current_build(S, B) == storage_get_build(B, S[Len(S)].build_id)

(* Mutant: the pinned builds are ignored. *)
get_dependency_build_no_pin(build, job_id, cfg, B) ==
    IF \A i \in 1 .. Len(build.config.dependencies) :
            build.config.dependencies[i] # job_id
    THEN ArgError("ValueError")
    ELSE IF get_job_config(cfg, job_id) = <<>> THEN ArgError("NotFound")
    ELSE LET latest == get_latest_successful_build(B, job_id)
         IN IF latest = <<>> THEN ArgError("TypeError")
            ELSE Lit(latest[1].retval)

(* Mutant: a placeholder may name a job that is not a dependency. *)
get_dependency_build_any_job(build, job_id, cfg, B) ==
    IF job_id \in DOMAIN build.config.pinned_builds
    THEN LET pinned == storage_get_build(B, build.config.pinned_builds[job_id])
         IN IF pinned = <<>> THEN ArgError("NotFound")
            ELSE Lit(pinned[1].retval)
    ELSE IF get_job_config(cfg, job_id) = <<>> THEN ArgError("NotFound")
    ELSE LET latest == get_latest_successful_build(B, job_id)
         IN IF latest = <<>> THEN ArgError("TypeError")
            ELSE Lit(latest[1].retval)

(* Mutant: an unpinned placeholder stands for the latest successful build  *)
(* there was when the build was created.                                   *)
get_dependency_build_at_creation(build, job_id, cfg, B) ==
    IF \A i \in 1 .. Len(build.config.dependencies) :
            build.config.dependencies[i] # job_id
    THEN ArgError("ValueError")
    ELSE IF job_id \in DOMAIN build.config.pinned_builds
    THEN LET pinned == storage_get_build(B, build.config.pinned_builds[job_id])
         IN IF pinned = <<>> THEN ArgError("NotFound")
            ELSE Lit(pinned[1].retval)
    ELSE IF get_job_config(cfg, job_id) = <<>> THEN ArgError("NotFound")
    ELSE LET older == [b \in { x \in DOMAIN B : x < build.id } |-> B[b]]
             latest == get_latest_successful_build(older, job_id)
         IN IF latest = <<>> THEN ArgError("TypeError")
            ELSE Lit(latest[1].retval)

(* BuildInfo.get_dependency_build(job_id)['retval'] as a resolved argument.*)
get_dependency_build(build, job_id, cfg, B) ==
    IF \A i \in 1 .. Len(build.config.dependencies) :
            build.config.dependencies[i] # job_id
    THEN ArgError("ValueError")
    ELSE IF job_id \in DOMAIN build.config.pinned_builds
    THEN LET pinned == storage_get_build(B, build.config.pinned_builds[job_id])
         IN IF pinned = <<>> THEN ArgError("NotFound")
            ELSE Lit(pinned[1].retval)
    ELSE IF get_job_config(cfg, job_id) = <<>> THEN ArgError("NotFound")
    ELSE LET latest == get_latest_successful_build(B, job_id)
         IN IF latest = <<>> THEN ArgError("TypeError")
            ELSE Lit(latest[1].retval)

(* The first error among resolved items, <<>> if there is none. *)
first_error(rs) ==
    LET bad == { i \in DOMAIN rs : rs[i].t = "error" }
    IN IF bad = {} THEN <<>>
       ELSE <<rs[CHOOSE i \in bad : \A k \in bad : i <= k]>>

RECURSIVE _prepare_args(_, _, _, _, _)
_prepare_args(args, build, cfg, S, B) ==
    IF args.t = "list"
    THEN LET rs == [i \in 1 .. Len(args.items) |->
                        _prepare_args(args.items[i], build, cfg, S, B)]
             err == first_error(rs)
         IN IF err # <<>> THEN err[1] ELSE List(rs)
    ELSE IF args.t = "retval"
    THEN LET cur == current_build(S, B)
         IN IF cur = <<>> THEN ArgError("NotFound")
            ELSE get_dependency_build(cur[1], args.v, cfg, B)
    ELSE args

(* build.config['kwargs'] resolved key by key. *)
_prepare_kwargs(kwargs, build, cfg, S, B) ==
    LET rs == [k \in DOMAIN kwargs |-> _prepare_args(kwargs[k], build, cfg, S, B)]
        bad == { k \in DOMAIN rs : rs[k].t = "error" }
    IN IF bad = {} THEN [t |-> "dict", v |-> "", items |-> rs]
       ELSE rs[CHOOSE k \in bad : TRUE]

----------------------------------------------------------------------------
(* ProgressReport (utils/__init__.py).  A row of a progress table is       *)
(* (name, current, total): name is a tuple of path segments, current and   *)
(* total are <<>> for None and <<n>> for the number n.                     *)

Row(name, current, total) == [name |-> name, current |-> current, total |-> total]

(* ProgressReport.__init__ *)
ProgressReport(name, current, total, children) ==
    [name |-> name, _current |-> current, _total |-> total, children |-> children]

RECURSIVE sum(_)
sum(xs) == IF xs = <<>> THEN 0 ELSE Head(xs) + sum(Tail(xs))

(* Mutant: the value of a node that has children is the sum over them. *)
RECURSIVE current_children_first(_)
RECURSIVE current(_)
current_children_first(self) ==
    IF self.children = <<>> /\ self._current # <<>> THEN self._current[1]
    ELSE sum([i \in DOMAIN self.children |-> current(self.children[i])])

current(self) ==
    IF self._current # <<>> THEN self._current[1]
    ELSE sum([i \in DOMAIN self.children |-> current(self.children[i])])

RECURSIVE total(_)
total(self) ==
    IF self._total # <<>> THEN self._total[1]
    ELSE sum([i \in DOMAIN self.children |-> total(self.children[i])])

(* The loop of from_table over the rows: the root row, the prefixes in the *)
(* order they were first met, and the rows of each prefix with the prefix  *)
(* stripped from their names.                                              *)
RECURSIVE from_table_scan(_, _)
from_table_scan(table, acc) ==
    IF table = <<>> THEN acc
    ELSE LET row == Head(table)
             prefix == row.name[1]
         IN from_table_scan(Tail(table),
              IF row.name = <<>>
              THEN [acc EXCEPT !.root = <<row>>]
              ELSE [root |-> acc.root,
                    prefixes |-> IF in_list(prefix, acc.prefixes) THEN acc.prefixes
                                 ELSE Append(acc.prefixes, prefix),
                    sub_tables |->
                        dict_set(acc.sub_tables, prefix,
                                 Append(IF prefix \in DOMAIN acc.sub_tables
                                        THEN acc.sub_tables[prefix] ELSE <<>>,
                                        Row(Tail(row.name), row.current, row.total)))])

(* Mutant: a child is added for every row, not for every new prefix. *)
RECURSIVE from_table_child_per_row(_, _)
RECURSIVE from_table(_, _)
from_table_child_per_row(table, base_name) ==
    LET scan == from_table_scan(table, [root |-> <<>>, prefixes |-> <<>>,
                                        sub_tables |-> <<>>])
        named == SelectSeq(table, LAMBDA row : row.name # <<>>)
    IN ProgressReport(base_name,
                      IF scan.root = <<>> THEN <<>> ELSE scan.root[1].current,
                      IF scan.root = <<>> THEN <<>> ELSE scan.root[1].total,
                      [i \in DOMAIN named |->
                           from_table(scan.sub_tables[named[i].name[1]],
                                      named[i].name[1])])

from_table(table, base_name) ==
    LET scan == from_table_scan(table, [root |-> <<>>, prefixes |-> <<>>,
                                        sub_tables |-> <<>>])
    IN ProgressReport(base_name,
                      IF scan.root = <<>> THEN <<>> ELSE scan.root[1].current,
                      IF scan.root = <<>> THEN <<>> ELSE scan.root[1].total,
                      [i \in DOMAIN scan.prefixes |->
                           from_table(scan.sub_tables[scan.prefixes[i]],
                                      scan.prefixes[i])])

----------------------------------------------------------------------------
(* How an engine call ended.                                               *)
(*   op        the call: create_build, run_build, build_job, delete         *)
(*   build     the build it created, ran or deleted (NoBuild if it failed   *)
(*             before it had one)                                           *)
(*   raised    the exception it raised to its caller ("None": it returned)  *)
(*   value     what it returned: None or a BuildInfo                        *)
(*   fn        how the run ended inside the try block: "return", "skip",    *)
(*             "raise" (the callable), "lookup" (_get_runner_function),     *)
(*             "args" (_prepare_args), "none" (no run)                      *)
(*   fexc/fval the exception raised there / the value the callable returned *)
(*   stack_in  the context stack when the call was made                     *)
(*   clean     the context on top of the stack at ctx.pop() was the run's   *)
(*   stored    the build was in storage when its outcome was persisted      *)
(* What an engine call returns: None, or the BuildInfo instance of a       *)
(* build (BuildInfo.__init__: a handle holding the build id).              *)
None == [t |-> "None", build_id |-> NoBuild]
BuildInfo(build_id) == [t |-> "BuildInfo", build_id |-> build_id]

(* A string or a boolean returned by a call. *)
Value(v) == [t |-> v, build_id |-> NoBuild]

Outcome(op, build, raised, value) ==
    [op |-> op, build |-> build, raised |-> raised,
     value |-> value, fn |-> "none", fexc |-> "None", fval |-> "None",
     stack_in |-> ctx_stack, clean |-> TRUE, stored |-> TRUE]

(* No call has just ended: a callable is running. *)
Pending == [op |-> "none", build |-> NoBuild, raised |-> "None",
            value |-> None, fn |-> "none", fexc |-> "None", fval |-> "None",
            stack_in |-> <<>>, clean |-> TRUE, stored |-> TRUE]

(* Whether "except Exception" catches exc. *)
isinstance_Exception(exc) == exc # "SystemExit"

(* Mutant: the record is stored for the outermost context. *)
emit_outermost(S, L, record) ==
    IF S = <<>> THEN L ELSE log_message(L, S[1].build_id, record)

(* JobControlLogHandler.emit with the context stack S and the stored       *)
(* messages L: execution_context is the context on top of the stack.       *)
emit(S, L, record) ==
    IF S = <<>> THEN L ELSE log_message(L, S[Len(S)].build_id, record)

(* The records of a sequence emitted one after the other. *)
RECURSIVE emit_all(_, _, _)
emit_all(S, L, records) ==
    IF records = <<>> THEN L
    ELSE emit_all(S, emit(S, L, Head(records)), Tail(records))

(* Mutant: the top of the stack is popped without being compared. *)
pop_unchecked(S, token) ==
    [stack |-> SubSeq(S, 1, Len(S) - 1), ok |-> TRUE]

(* JobExecutionContext.pop: the stack without its top, and whether the top *)
(* was the context being popped (the assertion).                           *)
pop(S, token) ==
    [stack |-> SubSeq(S, 1, Len(S) - 1), ok |-> S[Len(S)].token = token]

push(S, ctx) == Append(S, ctx)

(* storage.finish_build on a build that may be gone: the storage after the *)
(* call and the exception the call raised.                                 *)
try_finish_build(B, build_id, success, skipped, retval, exception, exception_tb, now) ==
    IF build_id \notin DOMAIN B
    THEN [builds |-> B, raised |-> "NotFound"]
    ELSE IF ~storage_accepts(retval)
    THEN [builds |-> B, raised |-> "StoreError"]
    ELSE [builds |-> finish_build(B, build_id, success, skipped, retval,
                                  exception, exception_tb, now),
          raised |-> "None"]

(* The records _run_build logs in its except and else clauses, each before *)
(* the finish_build call of the clause.                                    *)
_run_build_end_records(f, how, val, exc, B, now) ==
    IF how = "skip" THEN <<LogRecord>>                    \* Build SKIPPED
    ELSE IF how = "raise"
    THEN IF isinstance_Exception(exc) THEN <<LogRecord>>  \* Build FAILED
         ELSE <<>>
    ELSE IF try_finish_build(B, f.build_id, TRUE, FALSE, val,
                             "None", "None", now).raised = "None"
    THEN <<LogRecord>>                                    \* Build SUCCESSFUL
    ELSE <<LogRecord, LogRecord>>                         \* and the error

(* Mutant: no finally clause: the context is popped only when nothing is   *)
(* raised while the outcome is persisted.                                  *)
_run_build_end_no_finally(f, how, val, exc, B, S, now) ==
    LET fin ==
          IF how = "skip"
          THEN try_finish_build(B, f.build_id, TRUE, TRUE, "None", "None", "None", now)
          ELSE IF how = "raise"
          THEN IF isinstance_Exception(exc)
               THEN try_finish_build(B, f.build_id, FALSE, FALSE, "None", exc, "tb", now)
               ELSE [builds |-> B, raised |-> exc]
          ELSE LET first == try_finish_build(B, f.build_id, TRUE, FALSE, val,
                                             "None", "None", now)
               IN IF first.raised = "None" THEN first
                  ELSE try_finish_build(first.builds, f.build_id, FALSE, FALSE,
                                        "None", first.raised, "tb", now)
        popped == IF fin.raised = "None" THEN pop(S, f.token)
                  ELSE [stack |-> S, ok |-> TRUE]
    IN [builds |-> fin.builds,
        emitted |-> _run_build_end_records(f, how, val, exc, B, now),
        stack |-> popped.stack,
        raised |-> IF popped.ok THEN fin.raised ELSE "AssertionError",
        clean |-> popped.ok,
        stored |-> f.build_id \in DOMAIN B]

(* Mutant: no except clause around the finish_build call of the else       *)
(* branch.                                                                 *)
_run_build_end_no_store_except(f, how, val, exc, B, S, now) ==
    LET fin ==
          IF how = "skip"
          THEN try_finish_build(B, f.build_id, TRUE, TRUE, "None", "None", "None", now)
          ELSE IF how = "raise"
          THEN IF isinstance_Exception(exc)
               THEN try_finish_build(B, f.build_id, FALSE, FALSE, "None", exc, "tb", now)
               ELSE [builds |-> B, raised |-> exc]
          ELSE try_finish_build(B, f.build_id, TRUE, FALSE, val, "None", "None", now)
        popped == pop(S, f.token)
    IN [builds |-> fin.builds,
        emitted |-> IF how = "return" THEN <<LogRecord>>
                    ELSE _run_build_end_records(f, how, val, exc, B, now),
        stack |-> popped.stack,
        raised |-> IF popped.ok THEN fin.raised ELSE "AssertionError",
        clean |-> popped.ok,
        stored |-> f.build_id \in DOMAIN B]

(* The except/else/finally part of _run_build for the run f: how is        *)
(* "return" (the callable returned val), "skip" (SkipBuild was raised) or  *)
(* "raise" (exc was raised inside the try block).  An exception that no    *)
(* except clause catches leaves _run_build after the finally clause.       *)
_run_build_end(f, how, val, exc, B, S, now) ==
    LET fin ==
          IF how = "skip"
          THEN try_finish_build(B, f.build_id, TRUE, TRUE, "None", "None", "None", now)
          ELSE IF how = "raise"
          THEN IF isinstance_Exception(exc)
               THEN try_finish_build(B, f.build_id, FALSE, FALSE, "None", exc, "tb", now)
               ELSE [builds |-> B, raised |-> exc]
          ELSE LET first == try_finish_build(B, f.build_id, TRUE, FALSE, val,
                                             "None", "None", now)
               IN IF first.raised = "None" THEN first
                  ELSE try_finish_build(first.builds, f.build_id, FALSE, FALSE,
                                        "None", first.raised, "tb", now)
        popped == pop(S, f.token)
    IN [builds |-> fin.builds,
        emitted |-> _run_build_end_records(f, how, val, exc, B, now),
        stack |-> popped.stack,
        raised |-> IF popped.ok THEN fin.raised ELSE "AssertionError",
        clean |-> popped.ok,
        stored |-> f.build_id \in DOMAIN B]

(* Mutant: the run takes the function and the arguments from the job's     *)
(* present definition instead of the build's stored configuration.         *)
_run_build_live_config(op, build_id, B0) ==
    LET build == B0[build_id]
        live == get_job_config(config, build.job_id)[1]
        token == nruns + 1
        B1 == start_build(B0, build_id, clock)
        ctx == [job_id |-> build.job_id, build_id |-> build_id, token |-> token]
        S1 == push(ctx_stack, ctx)
        lookup == _get_runner_function(live.function)
        L1 == emit(ctx_stack, log_messages, LogRecord)  \* Starting execution
        L2 == IF lookup = "None" THEN emit(S1, L1, LogRecord)  \* Function is
              ELSE L1
        args == _prepare_args(List(live.args), build, config, S1, B1)
        kwargs == _prepare_kwargs(live.kwargs, build, config, S1, B1)
        exc == IF lookup # "None" THEN lookup
               ELSE IF args.t = "error" THEN args.v
               ELSE IF kwargs.t = "error" THEN kwargs.v
               ELSE "None"
        f == [op |-> op, build_id |-> build_id,
              job_id |-> build.job_id, token |-> token,
              stack_in |-> ctx_stack, args |-> args, kwargs |-> kwargs]
    IN /\ nruns' = nruns + 1
       /\ IF exc # "None"
          THEN LET end == _run_build_end(f, "raise", "None", exc, B1, S1, clock)
               IN /\ builds' = end.builds
                  /\ ctx_stack' = end.stack
                  /\ log_messages' = emit_all(S1, L2, end.emitted)
                  /\ clock' = clock + 1
                  /\ ret' = [Outcome(op, build_id, end.raised, None)
                               EXCEPT !.fn = IF lookup # "None" THEN "lookup" ELSE "args",
                                      !.fexc = exc,
                                      !.clean = end.clean,
                                      !.stored = end.stored]
                  /\ UNCHANGED <<frames, invoked>>
          ELSE /\ builds' = B1
               /\ ctx_stack' = S1
               /\ log_messages' = L2
               /\ frames' = Append(frames, f)
               /\ invoked' = [invoked EXCEPT ![build_id] = @ + 1]
               /\ ret' = Pending
               /\ UNCHANGED clock

(* run_build(build) on a stored build, storage being B0: the body of       *)
(* _run_build up to the invocation of the callable, and all of it when the *)
(* callable cannot be invoked.                                             *)
_run_build(op, build_id, B0) ==
    LET build == B0[build_id]
        token == nruns + 1
        B1 == start_build(B0, build_id, clock)
        ctx == [job_id |-> build.job_id, build_id |-> build_id, token |-> token]
        S1 == push(ctx_stack, ctx)
        lookup == _get_runner_function(build.config.function)
        L1 == emit(ctx_stack, log_messages, LogRecord)  \* Starting execution
        L2 == IF lookup = "None" THEN emit(S1, L1, LogRecord)  \* Function is
              ELSE L1
        args == _prepare_args(List(build.config.args), build, config, S1, B1)
        kwargs == _prepare_kwargs(build.config.kwargs, build, config, S1, B1)
        exc == IF lookup # "None" THEN lookup
               ELSE IF args.t = "error" THEN args.v
               ELSE IF kwargs.t = "error" THEN kwargs.v
               ELSE "None"
        f == [op |-> op, build_id |-> build_id,
              job_id |-> build.job_id, token |-> token,
              stack_in |-> ctx_stack, args |-> args, kwargs |-> kwargs]
    IN /\ nruns' = nruns + 1
       /\ IF exc # "None"
          THEN LET end == _run_build_end(f, "raise", "None", exc, B1, S1, clock)
               IN /\ builds' = end.builds
                  /\ ctx_stack' = end.stack
                  /\ log_messages' = emit_all(S1, L2, end.emitted)
                  /\ clock' = clock + 1
                  /\ ret' = [Outcome(op, build_id, end.raised, None)
                               EXCEPT !.fn = IF lookup # "None" THEN "lookup" ELSE "args",
                                      !.fexc = exc,
                                      !.clean = end.clean,
                                      !.stored = end.stored]
                  /\ UNCHANGED <<frames, invoked>>
          ELSE /\ builds' = B1
               /\ ctx_stack' = S1
               /\ log_messages' = L2
               /\ frames' = Append(frames, f)
               /\ invoked' = [invoked EXCEPT ![build_id] = @ + 1]
               /\ ret' = Pending
               /\ UNCHANGED clock

CanRun == nruns < RunLimit

----------------------------------------------------------------------------
(* The operations.  Each may be called by the top-level caller (no frame)  *)
(* or from inside the callable that is running (the top frame).            *)

Init ==
    /\ config \in Configs
    /\ builds = <<>>
    /\ builds_seq = 0
    /\ ctx_stack = <<>>
    /\ frames = <<>>
    /\ clock = 1
    /\ ret = Pending
    /\ invoked = [b \in BuildIds |-> 0]
    /\ nruns = 0
    /\ log_messages = <<>>
    /\ created = <<>>

(* Mutant: the build record is created before the dependencies are        *)
(* checked.                                                                *)
CreateBuild_record_first(job_id) ==
    LET exc == create_build_raises(config, builds, job_id)
    IN /\ exc # "NotFound"
       /\ builds_seq < BuildLimit
       /\ builds' = storage_create_build(builds, builds_seq_next(builds_seq).value,
                                         job_id, get_job_config(config, job_id)[1])
       /\ builds_seq' = builds_seq_next(builds_seq).seq
       /\ created' = Append(created, builds_seq_next(builds_seq).value)
       /\ ret' = IF exc # "None"
                 THEN Outcome("create_build", NoBuild, exc, None)
                 ELSE Outcome("create_build", builds_seq_next(builds_seq).value, "None",
                              BuildInfo(builds_seq_next(builds_seq).value))
       /\ UNCHANGED <<config, log_messages, ctx_stack, frames, clock, invoked, nruns>>

CreateBuild(job_id) ==
    LET exc == create_build_raises(config, builds, job_id)
    IN IF exc # "None"
       THEN /\ ret' = Outcome("create_build", NoBuild, exc, None)
            /\ UNCHANGED <<config, builds, builds_seq, log_messages, created,
                           ctx_stack, frames, clock, invoked, nruns>>
       ELSE /\ builds_seq < BuildLimit
            /\ builds' = storage_create_build(
                            builds, builds_seq_next(builds_seq).value, job_id,
                            get_job_config(config, job_id)[1])
            /\ builds_seq' = builds_seq_next(builds_seq).seq
            /\ created' = Append(created, builds_seq_next(builds_seq).value)
            /\ ret' = Outcome("create_build", builds_seq_next(builds_seq).value, "None",
                              BuildInfo(builds_seq_next(builds_seq).value))
            /\ UNCHANGED <<config, log_messages, ctx_stack, frames, clock, invoked,
                           nruns>>

(* Mutant: the execution context is pushed before the build is fetched. *)
RunBuild_push_first(build_id) ==
    IF build_id \notin DOMAIN builds
    THEN /\ ret' = Outcome("run_build", NoBuild, "NotFound", None)
         /\ ctx_stack' = push(ctx_stack, [job_id |-> "None", build_id |-> build_id,
                                         token |-> 0])
         /\ UNCHANGED <<config, builds, builds_seq, log_messages, created, frames,
                        clock, invoked, nruns>>
    ELSE /\ CanRun
         /\ _run_build("run_build", build_id, builds)
         /\ UNCHANGED <<config, builds_seq, created>>

RunBuild(build_id) ==
    IF build_id \notin DOMAIN builds
    THEN /\ ret' = Outcome("run_build", NoBuild, "NotFound", None)
         /\ UNCHANGED <<config, builds, builds_seq, log_messages, created,
                        ctx_stack, frames, clock, invoked, nruns>>
    ELSE /\ CanRun
         /\ _run_build("run_build", build_id, builds)
         /\ UNCHANGED <<config, builds_seq, created>>

BuildJob(job_id) ==
    LET exc == create_build_raises(config, builds, job_id)
    IN IF exc # "None"
       THEN /\ ret' = Outcome("build_job", NoBuild, exc, None)
            /\ UNCHANGED <<config, builds, builds_seq, log_messages, created,
                           ctx_stack, frames, clock, invoked, nruns>>
       ELSE /\ builds_seq < BuildLimit
            /\ CanRun
            /\ builds_seq' = builds_seq_next(builds_seq).seq
            /\ created' = Append(created, builds_seq_next(builds_seq).value)
            /\ _run_build("build_job", builds_seq_next(builds_seq).value,
                          storage_create_build(
                              builds, builds_seq_next(builds_seq).value, job_id,
                              get_job_config(config, job_id)[1]))
            /\ UNCHANGED config

(* get_build(build_id).delete() on a stored build *)
DeleteBuild(build_id) ==
    /\ build_id \in DOMAIN builds
    /\ builds' = delete_build(builds, build_id)
    /\ log_messages' = delete_build(log_messages, build_id)
    /\ ret' = Outcome("delete", build_id, "None", None)
    /\ UNCHANGED <<config, builds_seq, created, ctx_stack, frames, clock, invoked,
                   nruns>>

(* BuildInfo.delete() on a BuildInfo of build_id whose information is       *)
(* loaded (the object comes from get_build) or is not (BuildInfo(app,       *)
(* build_id)): the build is popped from storage, then self.config is read,  *)
(* which fetches the information from storage when it is not loaded.  The   *)
(* outcome has fn = "cleanup" when the cleanup function was called with the *)
(* build.                                                                   *)
Delete(build_id, loaded) ==
    /\ loaded => build_id \in DOMAIN builds
    /\ builds' = delete_build(builds, build_id)
    /\ log_messages' = delete_build(log_messages, build_id)
    /\ LET info == IF loaded THEN <<builds[build_id]>>
                   ELSE storage_get_build(delete_build(builds, build_id), build_id)
       IN ret' =
            IF info = <<>> THEN Outcome("delete", build_id, "NotFound", None)
            ELSE LET cleanup_function == info[1].config.cleanup_function
                 IN IF cleanup_function \in {"None", ""}
                    THEN Outcome("delete", build_id, "None", None)
                    ELSE IF _get_runner_function(cleanup_function) # "None"
                    THEN Outcome("delete", build_id,
                                 _get_runner_function(cleanup_function), None)
                    ELSE [Outcome("delete", build_id, "None", None)
                            EXCEPT !.fn = "cleanup"]
    /\ UNCHANGED <<config, builds_seq, created, ctx_stack, frames, clock, invoked,
                   nruns>>

(* app.report_progress(group_name, current, total) called by the callable  *)
(* that is running (cur and tot stand for current and total): the entry is  *)
(* stored for the build of the context on top of the stack; what the        *)
(* storage raises is raised to the callable.                                *)
ReportProgress(group_name, cur, tot) ==
    /\ frames # <<>>
    /\ LET build_id == ctx_stack[Len(ctx_stack)].build_id
       IN IF build_id \notin DOMAIN builds
          THEN /\ ret' = Outcome("report_progress", build_id, "NotFound", None)
               /\ UNCHANGED builds
          ELSE /\ builds' = report_build_progress(builds, build_id, cur, tot,
                                                  group_name, "")
               /\ ret' = Outcome("report_progress", build_id, "None", None)
    /\ UNCHANGED <<config, builds_seq, log_messages, created, ctx_stack, frames,
                   clock, invoked, nruns>>

(* JobExecutionContext(app, job_id, build_id).push() done by the callable  *)
(* that is running, with a context object of its own (token 0: it is none  *)
(* of the objects _run_build creates), which it does not pop.              *)
StrayPush(job_id, build_id) ==
    /\ frames # <<>>
    /\ Len(ctx_stack) < MaxStack
    /\ ctx_stack' = push(ctx_stack, [job_id |-> job_id, build_id |-> build_id,
                                     token |-> 0])
    /\ ret' = Outcome("push", build_id, "None", None)
    /\ UNCHANGED <<config, builds, builds_seq, log_messages, created, frames,
                   clock, invoked, nruns>>

----------------------------------------------------------------------------
(* Builds run concurrently by workers (threads).  In the specification of   *)
(* the workers ctx_stack and frames hold one sequence per worker; the       *)
(* storage is shared.  A switch to another worker can take place between    *)
(* any two statements, so _run_build is taken in steps: up to the push,     *)
(* from the lookup of the function to its invocation, and the end.          *)

Workers == {"w1", "w2"}

(* Mutant: every worker sees the contexts of all the workers as one stack. *)
_execution_ctx_stack_shared(stacks, worker) == stacks["w1"] \o stacks["w2"]

(* jobcontrol.globals._execution_ctx_stack as the worker observes it: the   *)
(* stack of that worker.                                                    *)
_execution_ctx_stack(stacks, worker) == stacks[worker]

(* run_build(build_id) on a stored build by a worker that runs nothing, up  *)
(* to ctx.push().                                                           *)
WorkerRunBuild(worker, build_id) ==
    /\ frames[worker] = <<>>
    /\ build_id \in DOMAIN builds
    /\ CanRun
    /\ LET S == _execution_ctx_stack(ctx_stack, worker)
           build == builds[build_id]
           token == nruns + 1
           ctx == [job_id |-> build.job_id, build_id |-> build_id, token |-> token]
       IN /\ log_messages' = emit(S, log_messages, LogRecord)  \* Starting execution
          /\ builds' = start_build(builds, build_id, clock)
          /\ ctx_stack' = [ctx_stack EXCEPT ![worker] = push(S, ctx)]
          /\ frames' = [frames EXCEPT ![worker] =
                          <<[op |-> "run_build", build_id |-> build_id,
                             job_id |-> build.job_id, token |-> token,
                             stack_in |-> S, args |-> List(<<>>),
                             kwargs |-> [t |-> "dict", v |-> "", items |-> <<>>],
                             phase |-> "pushed", logged |-> FALSE]>>]
          /\ nruns' = token
    /\ ret' = Pending
    /\ UNCHANGED <<config, builds_seq, created, clock, invoked>>

(* The try block of _run_build in the worker: the function is looked up,    *)
(* the arguments are resolved and the function is invoked, or the run ends  *)
(* with the exception that was raised.  Without an active context           *)
(* execution_context raises RuntimeError.                                   *)
WorkerInvoke(worker) ==
    /\ frames[worker] # <<>>
    /\ frames[worker][1].phase = "pushed"
    /\ LET f == frames[worker][1]
           S == _execution_ctx_stack(ctx_stack, worker)
           build == builds[f.build_id]
           lookup == _get_runner_function(build.config.function)
           L2 == IF lookup = "None" THEN emit(S, log_messages, LogRecord)
                 ELSE log_messages
           args == IF S = <<>> THEN ArgError("RuntimeError")
                   ELSE _prepare_args(List(build.config.args), build, config, S, builds)
           kwargs == IF S = <<>> THEN ArgError("RuntimeError")
                     ELSE _prepare_kwargs(build.config.kwargs, build, config, S, builds)
           exc == IF lookup # "None" THEN lookup
                  ELSE IF args.t = "error" THEN args.v
                  ELSE IF kwargs.t = "error" THEN kwargs.v
                  ELSE "None"
       IN IF exc # "None"
          THEN LET end == _run_build_end(f, "raise", "None", exc, builds, S, clock)
               IN /\ builds' = end.builds
                  /\ ctx_stack' = [ctx_stack EXCEPT ![worker] = end.stack]
                  /\ log_messages' = emit_all(S, L2, end.emitted)
                  /\ clock' = clock + 1
                  /\ frames' = [frames EXCEPT ![worker] = <<>>]
                  /\ ret' = [Outcome("run_build", f.build_id, end.raised, None)
                               EXCEPT !.fn = IF lookup # "None" THEN "lookup" ELSE "args",
                                      !.fexc = exc,
                                      !.stack_in = f.stack_in,
                                      !.clean = end.clean,
                                      !.stored = end.stored]
                  /\ UNCHANGED invoked
          ELSE /\ frames' = [frames EXCEPT ![worker] =
                               <<[f EXCEPT !.args = args, !.kwargs = kwargs,
                                           !.phase = "running"]>>]
               /\ log_messages' = L2
               /\ invoked' = [invoked EXCEPT ![f.build_id] = @ + 1]
               /\ ret' = Pending
               /\ UNCHANGED <<builds, ctx_stack, clock>>
    /\ UNCHANGED <<config, builds_seq, created, nruns>>

(* The function the worker runs logs a record, once. *)
WorkerEmit(worker) ==
    /\ frames[worker] # <<>>
    /\ frames[worker][1].phase = "running"
    /\ ~frames[worker][1].logged
    /\ log_messages' = emit(_execution_ctx_stack(ctx_stack, worker), log_messages,
                            LogRecord)
    /\ frames' = [frames EXCEPT ![worker] = <<[@[1] EXCEPT !.logged = TRUE]>>]
    /\ ret' = Pending
    /\ UNCHANGED <<config, builds, builds_seq, created, ctx_stack, clock, invoked,
                   nruns>>

(* The function the worker runs calls app.report_progress(None, 1, 2). *)
WorkerReportProgress(worker) ==
    /\ frames[worker] # <<>>
    /\ frames[worker][1].phase = "running"
    /\ LET S == _execution_ctx_stack(ctx_stack, worker)
       IN IF S = <<>>
          THEN /\ ret' = Outcome("report_progress", NoBuild, "RuntimeError", None)
               /\ UNCHANGED builds
          ELSE IF S[Len(S)].build_id \notin DOMAIN builds
          THEN /\ ret' = Outcome("report_progress", S[Len(S)].build_id, "NotFound",
                                 None)
               /\ UNCHANGED builds
          ELSE /\ builds' = report_build_progress(builds, S[Len(S)].build_id, 1, 2,
                                                  "None", "")
               /\ ret' = Pending
    /\ UNCHANGED <<config, builds_seq, log_messages, created, ctx_stack, frames,
                   clock, invoked, nruns>>

(* The function the worker runs ends: the except, else and finally clauses  *)
(* of _run_build.                                                           *)
WorkerEnds(worker, how, val, exc) ==
    /\ frames[worker] # <<>>
    /\ frames[worker][1].phase = "running"
    /\ LET f == frames[worker][1]
           S == _execution_ctx_stack(ctx_stack, worker)
           end == _run_build_end(f, how, val, exc, builds, S, clock)
       IN /\ builds' = end.builds
          /\ ctx_stack' = [ctx_stack EXCEPT ![worker] = end.stack]
          /\ log_messages' = emit_all(S, log_messages, end.emitted)
          /\ clock' = clock + 1
          /\ frames' = [frames EXCEPT ![worker] = <<>>]
          /\ ret' = [op |-> f.op, build |-> f.build_id,
                     raised |-> end.raised, value |-> None,
                     fn |-> how, fexc |-> exc, fval |-> val,
                     stack_in |-> f.stack_in, clean |-> end.clean,
                     stored |-> end.stored]
    /\ UNCHANGED <<config, builds_seq, created, invoked, nruns>>

----------------------------------------------------------------------------
(* get_job(job_id).get_status() *)
GetStatus(job_id) ==
    /\ ret' = IF get_job_config(config, job_id) = <<>>
              THEN Outcome("get_status", NoBuild, "NotFound", None)
              ELSE LET status == get_status(config, builds, job_id)
                   IN IF status = "TypeError"
                      THEN Outcome("get_status", NoBuild, "TypeError", None)
                      ELSE Outcome("get_status", NoBuild, "None", Value(status))
    /\ UNCHANGED <<config, builds, builds_seq, log_messages, created, ctx_stack,
                   frames, clock, invoked, nruns>>

(* get_job(job_id).is_outdated() *)
IsOutdated(job_id) ==
    /\ ret' = IF get_job_config(config, job_id) = <<>>
              THEN Outcome("is_outdated", NoBuild, "NotFound", None)
              ELSE LET outdated == is_outdated(config, builds, job_id)
                   IN IF outdated = "TypeError"
                      THEN Outcome("is_outdated", NoBuild, "TypeError", None)
                      ELSE IF outdated = "None"
                      THEN Outcome("is_outdated", NoBuild, "None", None)
                      ELSE Outcome("is_outdated", NoBuild, "None", Value(outdated))
    /\ UNCHANGED <<config, builds, builds_seq, log_messages, created, ctx_stack,
                   frames, clock, invoked, nruns>>

(* The definition of a defined job is changed in the configuration         *)
(* (config.get_job_config(job_id)[name] = value): the job now takes the    *)
(* arguments args and has the dependencies deps.                           *)
EditJob(job_id, args, deps) ==
    /\ get_job_config(config, job_id) # <<>>
    /\ config' = [i \in DOMAIN config |->
                     IF config[i].id = job_id
                     THEN [config[i] EXCEPT !.args = args, !.dependencies = deps]
                     ELSE config[i]]
    /\ ret' = Outcome("edit", NoBuild, "None", None)
    /\ UNCHANGED <<builds, builds_seq, log_messages, created, ctx_stack, frames,
                   clock, invoked, nruns>>

(* _create_job_depgraph(job_id, complete) *)
CreateJobDepgraph(job_id, complete) ==
    /\ ret' = Outcome(IF complete THEN "depgraph_complete" ELSE "depgraph",
                      NoBuild, "None",
                      [t |-> "dict", build_id |-> NoBuild,
                       DEPGRAPH |-> _create_job_depgraph(config, job_id, complete)])
    /\ log_messages' = emit(ctx_stack, log_messages, LogRecord)
    /\ UNCHANGED <<config, builds, builds_seq, created, ctx_stack, frames, clock,
                   invoked, nruns>>

(* _resolve_deps(_create_job_depgraph(job_id, complete), job_id) *)
ResolveDeps(job_id, complete) ==
    /\ LET res == resolve_deps(_create_job_depgraph(config, job_id, complete), job_id)
       IN ret' = Outcome("resolve_deps", NoBuild, res.raised,
                         IF res.raised # "None" THEN None
                         ELSE [t |-> "list", build_id |-> NoBuild,
                               order |-> res.order])
    /\ log_messages' = emit(ctx_stack, log_messages, LogRecord)
    /\ UNCHANGED <<config, builds, builds_seq, created, ctx_stack, frames, clock,
                   invoked, nruns>>

(* ProgressReport.from_table(table): the report built and the table it was *)
(* built from.                                                             *)
FromTable(table) ==
    /\ ret' = Outcome("from_table", NoBuild, "None",
                      [t |-> "ProgressReport", build_id |-> NoBuild,
                       table |-> table, report |-> from_table(table, "None")])
    /\ UNCHANGED <<config, builds, builds_seq, log_messages, created, ctx_stack,
                   frames, clock, invoked, nruns>>

(* Code logs a record (logging.getLogger(...).info(...)) after the handler *)
(* has been installed on the root logger, which the first run_build does:  *)
(* the callable that is running, or the top-level caller between runs.     *)
EmitLog ==
    /\ nruns > 0
    /\ IF ctx_stack = <<>> THEN TRUE
       ELSE IF ctx_stack[Len(ctx_stack)].build_id \notin DOMAIN log_messages THEN TRUE
       ELSE Len(log_messages[ctx_stack[Len(ctx_stack)].build_id]) < MaxLogs
    /\ log_messages' = emit(ctx_stack, log_messages, LogRecord)
    /\ ret' = Outcome("emit", NoBuild, "None", None)
    /\ UNCHANGED <<config, builds, builds_seq, created, ctx_stack, frames, clock,
                   invoked, nruns>>

(* list(storage.get_job_builds(job_id, started, finished, success,         *)
(* skipped, order, limit)): the builds yielded and the arguments of the    *)
(* call.                                                                   *)
GetJobBuilds(job_id, started, finished, success, skipped, order, limit) ==
    /\ ret' = Outcome("get_job_builds", NoBuild, "None",
                      [t |-> "list", build_id |-> NoBuild,
                       args |-> [job_id |-> job_id, started |-> started,
                                 finished |-> finished, success |-> success,
                                 skipped |-> skipped, order |-> order,
                                 limit |-> limit],
                       builds |-> get_job_builds(builds, job_id, started, finished,
                                                 success, skipped, order, limit)])
    /\ UNCHANGED <<config, builds, builds_seq, log_messages, created, ctx_stack,
                   frames, clock, invoked, nruns>>

(* The running callable ends. *)
CallableEnds(how, val, exc) ==
    /\ frames # <<>>
    /\ LET f == frames[Len(frames)]
           end == _run_build_end(f, how, val, exc, builds, ctx_stack, clock)
       IN /\ builds' = end.builds
          /\ ctx_stack' = end.stack
          /\ log_messages' = emit_all(ctx_stack, log_messages, end.emitted)
          /\ clock' = clock + 1
          /\ frames' = SubSeq(frames, 1, Len(frames) - 1)
          /\ ret' = [op |-> f.op, build |-> f.build_id,
                     raised |-> end.raised, value |-> None,
                     fn |-> how, fexc |-> exc, fval |-> val,
                     stack_in |-> f.stack_in, clean |-> end.clean,
                     stored |-> end.stored]
    /\ UNCHANGED <<config, builds_seq, created, invoked, nruns>>

CallableReturns(val) == CallableEnds("return", val, "None")

CallableSkips == CallableEnds("skip", "None", "SkipBuild")

CallableRaises(exc) == CallableEnds("raise", "None", exc)

Next ==
    \/ \E job_id \in JobIds : CreateBuild(job_id)
    \/ \E build_id \in BuildIds : RunBuild(build_id)
    \/ \E job_id \in JobIds : BuildJob(job_id)
    \/ \E build_id \in BuildIds : DeleteBuild(build_id)
    \/ \E val \in RetVals : CallableReturns(val)
    \/ CallableSkips
    \/ \E exc \in UserExcs : CallableRaises(exc)

Spec == Init /\ [][Next]_vars

----------------------------------------------------------------------------
(* The engine driven by a top-level caller alone (no call is made while a  *)
(* callable runs), with a pinned and an unpinned dependent of job A.       *)
PinRetVals == {"7", "10"}

PinInit ==
    /\ config = CfgPinned
    /\ builds = <<>>
    /\ builds_seq = 0
    /\ ctx_stack = <<>>
    /\ frames = <<>>
    /\ clock = 1
    /\ ret = Pending
    /\ invoked = [b \in BuildIds |-> 0]
    /\ nruns = 0
    /\ log_messages = <<>>
    /\ created = <<>>

PinNext ==
    \/ \E job_id \in PinJobIds : frames = <<>> /\ CreateBuild(job_id)
    \/ \E build_id \in BuildIds : frames = <<>> /\ RunBuild(build_id)
    \/ \E job_id \in PinJobIds : frames = <<>> /\ BuildJob(job_id)
    \/ \E val \in PinRetVals : CallableReturns(val)
    \/ \E exc \in {"E1"} : CallableRaises(exc)

SpecPin == PinInit /\ [][PinNext]_vars

(* The engine and the status queries driven by a top-level caller alone,   *)
(* for a job with two dependencies whose callables return normally.        *)
DepsInit ==
    /\ config = CfgDeps
    /\ builds = <<>>
    /\ builds_seq = 0
    /\ ctx_stack = <<>>
    /\ frames = <<>>
    /\ clock = 1
    /\ ret = Pending
    /\ invoked = [b \in BuildIds |-> 0]
    /\ nruns = 0
    /\ log_messages = <<>>
    /\ created = <<>>

DepsNext ==
    \/ \E job_id \in DepsJobIds : frames = <<>> /\ CreateBuild(job_id)
    \/ \E build_id \in BuildIds : frames = <<>> /\ RunBuild(build_id)
    \/ \E job_id \in DepsJobIds : frames = <<>> /\ BuildJob(job_id)
    \/ \E build_id \in BuildIds : frames = <<>> /\ DeleteBuild(build_id)
    \/ \E job_id \in DepsJobIds : frames = <<>> /\ GetStatus(job_id)
    \/ \E job_id \in DepsJobIds : frames = <<>> /\ IsOutdated(job_id)
    \/ \E val \in {"7"} : CallableReturns(val)

SpecDeps == DepsInit /\ [][DepsNext]_vars

----------------------------------------------------------------------------
(* The engine and get_status driven by a top-level caller alone, for the   *)
(* chain configuration, with callables that return, skip or raise.         *)
LabelJobIds == {"A", "B"}

LabelInit ==
    /\ config = CfgChain
    /\ builds = <<>>
    /\ builds_seq = 0
    /\ ctx_stack = <<>>
    /\ frames = <<>>
    /\ clock = 1
    /\ ret = Pending
    /\ invoked = [b \in BuildIds |-> 0]
    /\ nruns = 0
    /\ log_messages = <<>>
    /\ created = <<>>

LabelNext ==
    \/ \E job_id \in LabelJobIds : frames = <<>> /\ CreateBuild(job_id)
    \/ \E build_id \in BuildIds : frames = <<>> /\ RunBuild(build_id)
    \/ \E job_id \in LabelJobIds : frames = <<>> /\ BuildJob(job_id)
    \/ \E job_id \in LabelJobIds : frames = <<>> /\ GetStatus(job_id)
    \/ \E val \in {"7"} : CallableReturns(val)
    \/ CallableSkips
    \/ \E exc \in {"E1"} : CallableRaises(exc)

SpecLabel == LabelInit /\ [][LabelNext]_vars

----------------------------------------------------------------------------
(* The engine driven by a top-level caller that also edits the definition  *)
(* of job B of the chain configuration.                                    *)
EditJobIds == {"A", "B"}

EditInit ==
    /\ config = CfgChain
    /\ builds = <<>>
    /\ builds_seq = 0
    /\ ctx_stack = <<>>
    /\ frames = <<>>
    /\ clock = 1
    /\ ret = Pending
    /\ invoked = [b \in BuildIds |-> 0]
    /\ nruns = 0
    /\ log_messages = <<>>
    /\ created = <<>>

EditNext ==
    \/ \E job_id \in EditJobIds : frames = <<>> /\ CreateBuild(job_id)
    \/ \E build_id \in BuildIds : frames = <<>> /\ RunBuild(build_id)
    \/ \E job_id \in EditJobIds : frames = <<>> /\ BuildJob(job_id)
    \/ \E args \in {<<Lit("edited")>>}, deps \in {<<>>} :
           frames = <<>> /\ EditJob("B", args, deps)
    \/ \E val \in {"7"} : CallableReturns(val)

SpecEdit == EditInit /\ [][EditNext]_vars

----------------------------------------------------------------------------
(* The dependency graph operations on every configuration of four jobs     *)
(* whose dependency lists hold at most MaxEdges entries in all; a list may *)
(* repeat an id, name the job itself or close a cycle.                     *)
GraphJobIds == {"A", "B", "C", "D"}

GraphConfig(dA, dB, dC, dD) ==
    << BuildConfig("A", "mod:run", <<>>, <<>>, dA, <<>>),
       BuildConfig("B", "mod:run", <<>>, <<>>, dB, <<>>),
       BuildConfig("C", "mod:run", <<>>, <<>>, dC, <<>>),
       BuildConfig("D", "mod:run", <<>>, <<>>, dD, <<>>) >>

GraphInit ==
    /\ \E nA, nB, nC, nD \in 0 .. MaxEdges :
         /\ nA + nB + nC + nD <= MaxEdges
         /\ \E dA \in [1 .. nA -> GraphJobIds], dB \in [1 .. nB -> GraphJobIds],
               dC \in [1 .. nC -> GraphJobIds], dD \in [1 .. nD -> GraphJobIds] :
                config = GraphConfig(dA, dB, dC, dD)
    /\ builds = <<>>
    /\ builds_seq = 0
    /\ ctx_stack = <<>>
    /\ frames = <<>>
    /\ clock = 1
    /\ ret = Pending
    /\ invoked = [b \in BuildIds |-> 0]
    /\ nruns = 0
    /\ log_messages = <<>>
    /\ created = <<>>

(* One operation is applied to each configuration. *)
GraphNext ==
    \/ \E job_id \in GraphJobIds, complete \in BOOLEAN :
           ret = Pending /\ CreateJobDepgraph(job_id, complete)
    \/ \E job_id \in GraphJobIds, complete \in BOOLEAN :
           ret = Pending /\ ResolveDeps(job_id, complete)

SpecGraph == GraphInit /\ [][GraphNext]_vars

----------------------------------------------------------------------------
(* ProgressReport.from_table on every table of at most MaxRows rows with   *)
(* distinct names, the names and the values taken from the sets below.     *)
RowNames == { <<>>, <<"parse">>, <<"fetch">>, <<"fetch", "x">>, <<"fetch", "y">>,
              <<"parse", "x">> }

RowValues == { << <<>>, <<>> >>, << <<3>>, <<10>> >>, << <<1>>, <<4>> >>,
               << <<1>>, <<>> >> }

Tables ==
    UNION { { table \in [1 .. n -> { Row(name, v[1], v[2]) :
                                         name \in RowNames, v \in RowValues }] :
                  \A i, k \in 1 .. n : table[i].name = table[k].name => i = k }
            : n \in 0 .. MaxRows }

ProgressInit ==
    /\ config = <<>>
    /\ builds = <<>>
    /\ builds_seq = 0
    /\ ctx_stack = <<>>
    /\ frames = <<>>
    /\ clock = 1
    /\ ret = Pending
    /\ invoked = [b \in BuildIds |-> 0]
    /\ nruns = 0
    /\ log_messages = <<>>
    /\ created = <<>>

(* One table is handed to from_table. *)
ProgressNext == ret = Pending /\ \E table \in Tables : FromTable(table)

SpecProgress == ProgressInit /\ [][ProgressNext]_vars

----------------------------------------------------------------------------
(* The engine and code that logs, driven by a top-level caller and by the  *)
(* callables that run, for job A of the chain configuration.               *)
LogJobIds == {"A"}

LogInit ==
    /\ config = CfgChain
    /\ builds = <<>>
    /\ builds_seq = 0
    /\ ctx_stack = <<>>
    /\ frames = <<>>
    /\ clock = 1
    /\ ret = Pending
    /\ invoked = [b \in BuildIds |-> 0]
    /\ nruns = 0
    /\ log_messages = <<>>
    /\ created = <<>>

LogNext ==
    \/ \E job_id \in LogJobIds : CreateBuild(job_id)
    \/ \E build_id \in BuildIds : RunBuild(build_id)
    \/ \E job_id \in LogJobIds : BuildJob(job_id)
    \/ \E build_id \in BuildIds : DeleteBuild(build_id)
    \/ EmitLog
    \/ \E val \in {"7"} : CallableReturns(val)
    \/ \E exc \in {"E1"} : CallableRaises(exc)

SpecLog == LogInit /\ [][LogNext]_vars

----------------------------------------------------------------------------
(* The storage queried for the builds of job A, by the top-level caller    *)
(* between the calls that create and run builds of jobs A and B of the     *)
(* chain configuration, and by the callables that run.  A query changes    *)
(* nothing, so the queries explored are those that follow another kind of  *)
(* step.                                                                   *)
QueryJobIds == {"A", "B"}
QueryFilters == {"None", "True", "False"}
QueryLimits == {<<>>, <<1>>, <<2>>}

QueryInit ==
    /\ config = CfgChain
    /\ builds = <<>>
    /\ builds_seq = 0
    /\ ctx_stack = <<>>
    /\ frames = <<>>
    /\ clock = 1
    /\ ret = Pending
    /\ invoked = [b \in BuildIds |-> 0]
    /\ nruns = 0
    /\ log_messages = <<>>
    /\ created = <<>>

QueryNext ==
    \/ \E job_id \in QueryJobIds : frames = <<>> /\ CreateBuild(job_id)
    \/ \E build_id \in BuildIds : frames = <<>> /\ RunBuild(build_id)
    \/ /\ ret.op # "get_job_builds"
       /\ \E job_id \in {"A"},
             started, finished, success, skipped \in QueryFilters,
             order \in {"asc", "desc"}, limit \in QueryLimits :
              GetJobBuilds(job_id, started, finished, success, skipped, order, limit)
    \/ \E val \in {"7"} : CallableReturns(val)
    \/ CallableSkips
    \/ \E exc \in {"E1"} : CallableRaises(exc)

SpecQuery == QueryInit /\ [][QueryNext]_vars

----------------------------------------------------------------------------
(* Builds created and run by the top-level caller and by the callables     *)
(* that run, for a job and a dependent that takes its return value.        *)
NestInit ==
    /\ config = CfgNest
    /\ builds = <<>>
    /\ builds_seq = 0
    /\ ctx_stack = <<>>
    /\ frames = <<>>
    /\ clock = 1
    /\ ret = Pending
    /\ invoked = [b \in BuildIds |-> 0]
    /\ nruns = 0
    /\ log_messages = <<>>
    /\ created = <<>>

NestNext ==
    \/ \E job_id \in NestJobIds : CreateBuild(job_id)
    \/ \E build_id \in BuildIds : RunBuild(build_id)
    \/ \E job_id \in NestJobIds : BuildJob(job_id)
    \/ \E val \in {"7"} : CallableReturns(val)
    \/ \E exc \in {"E1"} : CallableRaises(exc)

SpecNest == NestInit /\ [][NestNext]_vars

----------------------------------------------------------------------------
(* Builds created, run and deleted by the top-level caller, through a      *)
(* BuildInfo whose information is loaded or not, for a job that names a    *)
(* cleanup function and a job that names none.                             *)
CleanupJobIds == {"A", "B"}

CleanupInit ==
    /\ config = CfgCleanup
    /\ builds = <<>>
    /\ builds_seq = 0
    /\ ctx_stack = <<>>
    /\ frames = <<>>
    /\ clock = 1
    /\ ret = Pending
    /\ invoked = [b \in BuildIds |-> 0]
    /\ nruns = 0
    /\ log_messages = <<>>
    /\ created = <<>>

CleanupNext ==
    \/ \E job_id \in CleanupJobIds : frames = <<>> /\ CreateBuild(job_id)
    \/ \E job_id \in CleanupJobIds : frames = <<>> /\ BuildJob(job_id)
    \/ \E build_id \in BuildIds, loaded \in BOOLEAN :
           frames = <<>> /\ Delete(build_id, loaded)
    \/ \E val \in {"7"} : CallableReturns(val)

SpecCleanup == CleanupInit /\ [][CleanupNext]_vars

----------------------------------------------------------------------------
(* A build of job A whose callable reports progress, while builds are      *)
(* deleted by the callable or by another user of the storage.              *)
ReportJobIds == {"A"}
ReportGroups == { <<>>, <<"fetch">> }
ReportCounts == {1, 2}

ReportInit ==
    /\ config = CfgChain
    /\ builds = <<>>
    /\ builds_seq = 0
    /\ ctx_stack = <<>>
    /\ frames = <<>>
    /\ clock = 1
    /\ ret = Pending
    /\ invoked = [b \in BuildIds |-> 0]
    /\ nruns = 0
    /\ log_messages = <<>>
    /\ created = <<>>

ReportNext ==
    \/ \E job_id \in ReportJobIds : frames = <<>> /\ BuildJob(job_id)
    \/ \E build_id \in BuildIds : DeleteBuild(build_id)
    \/ \E group_name \in ReportGroups, cur \in ReportCounts :
           ReportProgress(group_name, cur, 2)
    \/ \E val \in {"7"} : CallableReturns(val)
    \/ \E exc \in {"E1", "NotFound"} : CallableRaises(exc)

SpecReport == ReportInit /\ [][ReportNext]_vars

----------------------------------------------------------------------------
(* Builds run by the top-level caller, the callables being free to push a  *)
(* context of their own, made for build 0, and leave it on the stack.      *)
StrayInit ==
    /\ config = CfgNest
    /\ builds = <<>>
    /\ builds_seq = 0
    /\ ctx_stack = <<>>
    /\ frames = <<>>
    /\ clock = 1
    /\ ret = Pending
    /\ invoked = [b \in BuildIds |-> 0]
    /\ nruns = 0
    /\ log_messages = <<>>
    /\ created = <<>>

StrayNext ==
    \/ \E build_id \in BuildIds : frames = <<>> /\ RunBuild(build_id)
    \/ \E job_id \in NestJobIds : frames = <<>> /\ BuildJob(job_id)
    \/ \E build_id \in {0} : StrayPush("A", build_id)
    \/ \E val \in {"7"} : CallableReturns(val)
    \/ \E exc \in {"E1"} : CallableRaises(exc)

SpecStray == StrayInit /\ [][StrayNext]_vars

----------------------------------------------------------------------------
(* Two workers that run builds of A and of B, which takes the return value *)
(* of A, at the same time, on one storage; the builds are created while no *)
(* worker runs one.                                                        *)
WorkersInit ==
    /\ config = CfgNest
    /\ builds = <<>>
    /\ builds_seq = 0
    /\ ctx_stack = [w \in Workers |-> <<>>]
    /\ frames = [w \in Workers |-> <<>>]
    /\ clock = 1
    /\ ret = Pending
    /\ invoked = [b \in BuildIds |-> 0]
    /\ nruns = 0
    /\ log_messages = <<>>
    /\ created = <<>>

WorkersNext ==
    \/ \E job_id \in NestJobIds :
           (\A w \in Workers : frames[w] = <<>>) /\ CreateBuild(job_id)
    \/ \E worker \in Workers, build_id \in BuildIds : WorkerRunBuild(worker, build_id)
    \/ \E worker \in Workers : WorkerInvoke(worker)
    \/ \E worker \in Workers : WorkerEmit(worker)
    \/ \E worker \in Workers : WorkerReportProgress(worker)
    \/ \E worker \in Workers : WorkerEnds(worker, "return", "7", "None")

SpecWorkers == WorkersInit /\ [][WorkersNext]_vars

----------------------------------------------------------------------------
(* Shorthands for the claims. *)

(* A run of _run_build has just ended. *)
RunEnded == ret.op \in {"run_build", "build_job"} /\ ret.fn # "none"

(* The build the call that just ended was about, as stored now. *)
RetBuild == builds[ret.build]

(* The jobs the configuration defines. *)
DefinedJobs == { config[i].id : i \in 1 .. Len(config) }

(* Job d has no build that is finished, successful and not skipped. *)
NoSuccessfulBuild(d) ==
    ~ \E b \in DOMAIN builds :
          /\ builds[b].job_id = d
          /\ builds[b].started /\ builds[b].finished
          /\ builds[b].success /\ ~builds[b].skipped

(* The outcome fields of a build. *)
OutcomeFields(b) ==
    <<b.started, b.finished, b.success, b.skipped, b.retval, b.exception>>

----------------------------------------------------------------------------
(* C1: after a run whose callable returned normally, the storage having    *)
(* accepted the result, the stored build is finished with success = true,  *)
(* skipped = false, retval = the returned value and no exception: its      *)
(* descriptive status is SUCCESSFUL, and the call returned.                *)
C1_ReturnIsSuccessful ==
    (RunEnded /\ ret.fn = "return" /\ ret.stored /\ storage_accepts(ret.fval))
    => /\ ret.build \in DOMAIN builds
       /\ ret.raised = "None"
       /\ RetBuild.started /\ RetBuild.finished
       /\ RetBuild.success /\ ~RetBuild.skipped
       /\ RetBuild.retval = ret.fval
       /\ RetBuild.exception = "None"
       /\ descriptive_status(RetBuild) = "SUCCESSFUL"

C1_Witness ==
    /\ RunEnded /\ ret.fn = "return" /\ ret.stored
    /\ ret.fval = "7"
    /\ ret.build \in DOMAIN builds

(* C2: after a run whose callable raised an exception other than          *)
(* SkipBuild, the context stack is what it was when the call was made      *)
(* (empty for a top-level call), and the stored build is FAILED with the   *)
(* raised exception as its exception.                                      *)
C2_RaiseIsFailed ==
    (RunEnded /\ ret.fn = "raise")
    => /\ ctx_stack = ret.stack_in
       /\ (frames = <<>> => ctx_stack = <<>>)
       /\ ret.stored =>
            /\ ret.build \in DOMAIN builds
            /\ RetBuild.finished /\ ~RetBuild.success
            /\ descriptive_status(RetBuild) = "FAILED"
            /\ RetBuild.exception = ret.fexc

(* C3 as amended: after a run whose callable raised SkipBuild the stored   *)
(* build is finished with success = true, skipped = true and no return     *)
(* value; its descriptive status is SKIPPED.                               *)
C3_SkipIsSkipped ==
    (RunEnded /\ ret.fn = "skip" /\ ret.stored)
    => /\ ret.build \in DOMAIN builds
       /\ RetBuild.finished /\ RetBuild.success /\ RetBuild.skipped
       /\ RetBuild.retval = "None"
       /\ descriptive_status(RetBuild) = "SKIPPED"

C3_Witness ==
    /\ RunEnded /\ ret.fn = "skip" /\ ret.stored
    /\ ret.build \in DOMAIN builds

(* C3 as stated: after a run whose callable raised SkipBuild the build's   *)
(* status is SUCCESSFUL, with skipped = true and no return value.          *)
C3_Original ==
    (RunEnded /\ ret.fn = "skip" /\ ret.stored)
    => /\ ret.build \in DOMAIN builds
       /\ descriptive_status(RetBuild) = "SUCCESSFUL"
       /\ RetBuild.skipped
       /\ RetBuild.retval = "None"

(* C4: an exception raised by the callable, by the lookup of the callable  *)
(* or by argument resolution is never the exception run_build or build_job *)
(* raises; the build being in storage, the call returns normally and the   *)
(* stored build is FAILED with that exception.  (The storage's NotFound    *)
(* for a build deleted while it ran is not counted against the claim.)     *)
C4_FailureNotPropagated ==
    (RunEnded /\ ret.fn \in {"raise", "lookup", "args"})
    => /\ ret.raised # ret.fexc
       /\ ret.raised \in {"None", "NotFound"}
       /\ ret.raised = "NotFound" => ~ret.stored
       /\ ret.stored =>
            /\ ret.raised = "None"
            /\ ret.build \in DOMAIN builds
            /\ descriptive_status(RetBuild) = "FAILED"
            /\ RetBuild.exception = ret.fexc

(* C5: every exit of run_build and build_job, by return or by exception,   *)
(* leaves the context stack as it was when the call was made; the stack    *)
(* holds exactly the contexts of the runs in progress, innermost last.     *)
C5_ContextReleased ==
    /\ ret.op \in {"run_build", "build_job"} => ctx_stack = ret.stack_in
    /\ Len(ctx_stack) = Len(frames)
    /\ \A i \in 1 .. Len(frames) :
          /\ ctx_stack[i].build_id = frames[i].build_id
          /\ ctx_stack[i].token = frames[i].token

(* A run made from inside another build's callable ended by raising: its   *)
(* outcome could not be persisted.                                         *)
C5_Witness ==
    /\ RunEnded
    /\ ret.raised = "NotFound"
    /\ Len(ret.stack_in) = 1
    /\ Len(frames) = 1

(* C6: for every job the configuration defines, create_build raises       *)
(* MissingDependencies exactly when one of the job's direct dependencies   *)
(* has no successful build in storage, and creates a build otherwise.      *)
C6_MissingDependenciesIff ==
    [][ret'.op = "create_build" =>
        \A j \in DefinedJobs :
          CreateBuild(j) =>
            LET deps == get_job_deps(config, j)
                missing == \E i \in 1 .. Len(deps) : NoSuccessfulBuild(deps[i])
            IN /\ (ret'.raised = "MissingDependencies") <=> missing
               /\ ~missing => (ret'.raised = "None" /\ ret'.value.build_id \in DOMAIN builds')
      ]_vars

(* C7: a create_build that fails (also the one build_job makes) creates no *)
(* build record and changes no stored build.                               *)
C7_FailedCreateChangesNothing ==
    [][(/\ ret'.op \in {"create_build", "build_job"}
        /\ ret'.fn = "none"
        /\ ret'.raised # "None")
       => (builds' = builds /\ builds_seq' = builds_seq)
      ]_vars

(* A create_build failed for a missing dependency while storage held the   *)
(* finished build of another job.                                          *)
C7_Witness ==
    /\ ret.op = "create_build"
    /\ ret.raised = "MissingDependencies"
    /\ \E b \in DOMAIN builds : builds[b].finished

(* A bare build id as a returned value. *)
BuildId(build_id) == [t |-> "int", build_id |-> build_id]

(* What a successful create_build(j) does to storage: exactly one record   *)
(* id is added, of job j and in state CREATED (no flag set, no start or    *)
(* end time, no return value, no exception), every other record is left as *)
(* it was.                                                                 *)
AddsOneCreatedBuild(j, id) ==
    /\ id \notin DOMAIN builds
    /\ DOMAIN builds' = (DOMAIN builds) \cup {id}
    /\ \A b \in DOMAIN builds : builds'[b] = builds[b]
    /\ builds'[id].id = id
    /\ builds'[id].job_id = j
    /\ descriptive_status(builds'[id]) = "CREATED"
    /\ OutcomeFields(builds'[id]) = <<FALSE, FALSE, FALSE, FALSE, "None", "None">>
    /\ builds'[id].start_time = NoTime
    /\ builds'[id].end_time = NoTime

(* C8 as amended: a create_build(job_id) that succeeds adds exactly one    *)
(* build record, of job_id and in state CREATED, leaves every other record *)
(* unchanged, and returns a BuildInfo instance whose id is that record's.  *)
C8_CreateAddsOneCreatedBuild ==
    [][(ret'.op = "create_build" /\ ret'.raised = "None") =>
          \A j \in JobIds :
             CreateBuild(j) =>
               /\ AddsOneCreatedBuild(j, ret'.value.build_id)
               /\ ret'.value = BuildInfo(ret'.value.build_id)
      ]_vars

(* A create_build succeeded while storage held a finished build. *)
C8_Witness ==
    /\ ret.op = "create_build"
    /\ ret.raised = "None"
    /\ ret.value.build_id \in DOMAIN builds
    /\ descriptive_status(builds[ret.value.build_id]) = "CREATED"
    /\ \E b \in DOMAIN builds : b # ret.value.build_id /\ builds[b].finished

(* C8 as stated: a create_build(job_id) that succeeds adds exactly one     *)
(* build record, of job_id and in state CREATED, leaves every other record *)
(* unchanged, and returns that record's id.                                *)
C8_Original ==
    [][(ret'.op = "create_build" /\ ret'.raised = "None") =>
          \A j \in JobIds :
             CreateBuild(j) =>
               /\ AddsOneCreatedBuild(j, ret'.value.build_id)
               /\ ret'.value = BuildId(ret'.value.build_id)
      ]_vars

(* C9: once a build is finished, no operation that leaves it in storage    *)
(* changes its started, finished, success, skipped, retval or exception    *)
(* field, or invokes its callable again.                                   *)
C9_OutcomeIsTerminal ==
    [][\A b \in DOMAIN builds :
          (builds[b].finished /\ b \in DOMAIN builds')
          => /\ OutcomeFields(builds'[b]) = OutcomeFields(builds[b])
             /\ invoked'[b] = invoked[b]
      ]_vars

(* C10: every stored build that is finished is started. *)
C10_FinishedImpliesStarted ==
    \A b \in DOMAIN builds : builds[b].finished => builds[b].started

(* A build that was run to an outcome twice. *)
C10_Witness ==
    \E b \in DOMAIN builds :
        builds[b].finished /\ builds[b].started /\ invoked[b] = 2

(* C11: every stored build carries a return value only if it is finished   *)
(* with success = true and skipped = false, and an exception only if       *)
(* success = false; also after a build that had an outcome was run again.  *)
C11_RetvalAndExceptionMatchOutcome ==
    \A b \in DOMAIN builds :
        /\ builds[b].retval # "None" =>
             (builds[b].finished /\ builds[b].success /\ ~builds[b].skipped)
        /\ builds[b].exception # "None" => ~builds[b].success

(* A build was run twice and its second run ended as a failure. *)
C11_Witness ==
    /\ RunEnded /\ ret.fn = "raise" /\ ret.fexc = "E1"
    /\ ret.build \in DOMAIN builds
    /\ invoked[ret.build] = 2
    /\ RetBuild.exception = "E1"
    /\ RetBuild.retval = "None"





----------------------------------------------------------------------------
(* The successful builds of job d, and the newest of a set of builds. *)
SuccessfulBuilds(d) ==
    { b \in DOMAIN builds :
          /\ builds[b].job_id = d
          /\ builds[b].started /\ builds[b].finished
          /\ builds[b].success /\ ~builds[b].skipped }

(* The value a placeholder for dependency d of build b stands for. *)
DependencyRetval(b, d) ==
    IF d \in DOMAIN b.config.pinned_builds
    THEN builds[b.config.pinned_builds[d]].retval
    ELSE builds[Max(SuccessfulBuilds(d))].retval

(* The callable that is running: its frame and its build. *)
Running == frames[Len(frames)]
RunningBuild == builds[Running.build_id]

(* C12: while the callable of a build runs, the arguments it was invoked   *)
(* with hold, at every place where the build's configuration has a         *)
(* placeholder for the declared dependency A, the return value of the      *)
(* build pinned for A if the configuration pins one, and of A's latest     *)
(* successful build otherwise (P: a placeholder nested in a list, pinned;  *)
(* U: a positional and a keyword placeholder, not pinned).                 *)
C12_PlaceholderIsPinnedOrLatest ==
    frames # <<>> =>
        /\ RunningBuild.job_id = "P" =>
             Running.args =
                 List(<<List(<<Lit(DependencyRetval(RunningBuild, "A"))>>)>>)
        /\ RunningBuild.job_id = "U" =>
             /\ Running.args = List(<<Lit(DependencyRetval(RunningBuild, "A"))>>)
             /\ Running.kwargs.items.k = Lit(DependencyRetval(RunningBuild, "A"))

(* P runs with the return value of the pinned build 0 while A has a newer  *)
(* successful build that returned another value.                           *)
C12_Witness ==
    /\ frames # <<>>
    /\ RunningBuild.job_id = "P"
    /\ RunningBuild.config.pinned_builds["A"] = 0
    /\ 1 \in SuccessfulBuilds("A")
    /\ builds[0].retval = "7" /\ builds[1].retval = "10"
    /\ Running.args = List(<<List(<<Lit("7")>>)>>)

----------------------------------------------------------------------------
(* The job ids the placeholders of an argument tree name, at any depth. *)
RECURSIVE Placeholders(_)
Placeholders(arg) ==
    IF arg.t = "retval" THEN {arg.v}
    ELSE IF arg.t = "list"
    THEN UNION { Placeholders(arg.items[i]) : i \in DOMAIN arg.items }
    ELSE {}

(* The build configuration c has a placeholder for a job that is not among *)
(* its dependencies.                                                       *)
HasUndeclared(c) ==
    \E d \in Placeholders(List(c.args))
             \cup UNION { Placeholders(c.kwargs[k]) : k \in DOMAIN c.kwargs } :
        \A i \in DOMAIN c.dependencies : c.dependencies[i] # d

(* C13: a build whose arguments hold a placeholder for a job that is not a *)
(* declared dependency never has its callable invoked; once run it is      *)
(* FAILED with the ValueError as its exception, and the run ended while    *)
(* the arguments were resolved.                                            *)
C13_UndeclaredPlaceholderFails ==
    \A b \in DOMAIN builds :
        HasUndeclared(builds[b].config) =>
            /\ invoked[b] = 0
            /\ builds[b].started =>
                 /\ descriptive_status(builds[b]) = "FAILED"
                 /\ builds[b].exception = "ValueError"
            /\ (RunEnded /\ ret.build = b) =>
                 (ret.fn = "args" /\ ret.fexc = "ValueError")

C13_Witness ==
    /\ RunEnded /\ ret.build \in DOMAIN builds
    /\ HasUndeclared(RetBuild.config)
    /\ ret.fn = "args" /\ ret.fexc = "ValueError"
    /\ invoked[ret.build] = 0
    /\ descriptive_status(RetBuild) = "FAILED"
    /\ RetBuild.exception = "ValueError"

----------------------------------------------------------------------------
(* The successful builds of job d created after build b was. *)
SuccessfulSince(d, b) == { x \in SuccessfulBuilds(d) : x > b }

(* C14: when the callable of a build of U runs and A, which U does not     *)
(* pin, has successful builds created after that build of U was created,   *)
(* the callable has received the return value of the newest of them.       *)
C14_ResolvedAtInvocation ==
    (frames # <<>> /\ RunningBuild.job_id = "U"
       /\ SuccessfulSince("A", Running.build_id) # {}) =>
        LET newest == builds[Max(SuccessfulSince("A", Running.build_id))]
        IN /\ Running.args = List(<<Lit(newest.retval)>>)
           /\ Running.kwargs.items.k = Lit(newest.retval)

(* Build 1 of U, created when A's only build had returned "7", runs after  *)
(* build 2 of A has returned "10", and receives "10".                      *)
C14_Witness ==
    /\ frames # <<>>
    /\ Running.build_id = 1 /\ RunningBuild.job_id = "U"
    /\ builds[0].retval = "7"
    /\ 2 \in SuccessfulBuilds("A") /\ builds[2].retval = "10"
    /\ Running.args = List(<<Lit("10")>>)

----------------------------------------------------------------------------
----------------------------------------------------------------------------
(* C16: run_build on a build id that is not in storage raises NotFound and *)
(* changes nothing: the storage, the context stack, the running callables, *)
(* the invocation counts and the number of runs are as before the call.    *)
C16_RunMissingBuildChangesNothing ==
    [][\A build_id \in BuildIds :
           (build_id \notin DOMAIN builds /\ RunBuild(build_id)) =>
               /\ ret'.op = "run_build" /\ ret'.raised = "NotFound"
               /\ ret'.fn = "none"
               /\ UNCHANGED <<builds, builds_seq, log_messages, created, ctx_stack,
                              frames, clock, invoked, nruns>>]_vars

(* run_build has just raised NotFound without running anything, while a    *)
(* build that has not been started is in storage.                          *)
C16_Witness ==
    /\ ret.op = "run_build" /\ ret.raised = "NotFound" /\ ret.fn = "none"
    /\ \E b \in DOMAIN builds : ~builds[b].started
    /\ ctx_stack = <<>> /\ nruns = 0

----------------------------------------------------------------------------
(* The declared dependencies of job j, and the end time of the latest      *)
(* successful build of a job that has one.                                 *)
Deps(j) == get_job_deps(config, j)
LatestEnd(j) == builds[Max(SuccessfulBuilds(j))].end_time

(* Dependency d of job j has a successful build that ended after j's own   *)
(* latest successful build.                                                *)
NewerThan(d, j) ==
    /\ SuccessfulBuilds(j) # {} /\ SuccessfulBuilds(d) # {}
    /\ LatestEnd(d) > LatestEnd(j)

(* Going through the dependencies of j in declared order, one with a newer *)
(* successful build comes before any without a successful build.           *)
OutdatedByScan(j) ==
    \E i \in DOMAIN Deps(j) :
        /\ NewerThan(Deps(j)[i], j)
        /\ \A k \in 1 .. (i - 1) : SuccessfulBuilds(Deps(j)[k]) # {}

C18_UnknownWhenDependencyUnbuilt ==
    [][ret'.op = "is_outdated" =>
         \A j \in DepsJobIds :
             (/\ IsOutdated(j)
              /\ \E i \in DOMAIN Deps(j) : SuccessfulBuilds(Deps(j)[i]) = {})
               => (ret'.raised = "None" /\ ret'.value = None)]_vars

(* C19: is_outdated returns true whenever some dependency's latest         *)
(* successful build ended after the job's own latest successful build,     *)
(* whatever its position.                                                  *)
C19_TrueWhenDependencyNewer ==
    [][ret'.op = "is_outdated" =>
         \A j \in DepsJobIds :
             (/\ IsOutdated(j)
              /\ \E i \in DOMAIN Deps(j) : NewerThan(Deps(j)[i], j))
               => ret'.value = Value("True")]_vars

(* C20: get_status returns 'not_built' exactly when storage holds no build *)
(* of the job, whatever the state of the builds it holds.                  *)
C20_NotBuiltIffNoBuild ==
    [][ret'.op = "get_status" =>
         \A j \in DepsJobIds : GetStatus(j) =>
             (ret'.value = Value("not_built")
                <=> \A b \in DOMAIN builds : builds[b].job_id # j)]_vars

----------------------------------------------------------------------------
(* The finished builds of job j. *)
FinishedBuilds(j) ==
    { b \in DOMAIN builds :
          builds[b].job_id = j /\ builds[b].started /\ builds[b].finished }

(* C21: get_status returns 'failed' only when the job has finished builds  *)
(* and every one of them failed (success = false), and 'success' only when *)
(* the job has a successful build; in particular a job whose finished      *)
(* builds are all skipped is not labelled 'failed'.                        *)
C21_FailedOnlyForFailedBuilds ==
    [][ret'.op = "get_status" =>
         \A j \in LabelJobIds : GetStatus(j) =>
             /\ ret'.value = Value("failed") =>
                  /\ FinishedBuilds(j) # {}
                  /\ \A b \in FinishedBuilds(j) : ~builds[b].success
             /\ ret'.value = Value("success") => SuccessfulBuilds(j) # {}]_vars

----------------------------------------------------------------------------
(* C22: when build_job returns, the build it created is in storage in a    *)
(* finished state and the value returned is the BuildInfo instance of that *)
(* build.                                                                  *)
C22_BuildJobReturnsBuildInfo ==
    (ret.op = "build_job" /\ RunEnded /\ ret.raised = "None" /\ ret.stored) =>
        /\ ret.build \in DOMAIN builds
        /\ RetBuild.started /\ RetBuild.finished
        /\ ret.value = BuildInfo(ret.build)

----------------------------------------------------------------------------
(* C23: no step changes the config of a build that stays in storage, and   *)
(* the arguments a callable is invoked with are those of the build's own   *)
(* config, resolved against its own dependencies and pins, whatever the    *)
(* job's definition has become since the build was created.                *)
C23_BuildConfigIsFrozen ==
    [][/\ \A b \in DOMAIN builds :
              b \in DOMAIN builds' => builds'[b].config = builds[b].config
       /\ (frames # <<>> =>
             /\ Running.args =
                    _prepare_args(List(RunningBuild.config.args), RunningBuild,
                                  config, ctx_stack, builds)
             /\ Running.kwargs =
                    _prepare_kwargs(RunningBuild.config.kwargs, RunningBuild,
                                    config, ctx_stack, builds))']_vars

(* A build of B created before B's definition was edited runs with the     *)
(* return value of A, as its own config says, not with the edited literal. *)
C23_Witness ==
    /\ frames # <<>>
    /\ RunningBuild.job_id = "B"
    /\ get_job_config(config, "B")[1].args = <<Lit("edited")>>
    /\ RunningBuild.config.args = <<Retval("A")>>
    /\ RunningBuild.config.dependencies = <<"A">>
    /\ Running.args = List(<<Lit("7")>>)

----------------------------------------------------------------------------
(* The jobs reachable from the jobs in S along dependency edges of the     *)
(* configuration, S included.                                              *)
RECURSIVE Closure(_)
Closure(S) ==
    LET next == S \cup UNION { { Deps(x)[i] : i \in DOMAIN Deps(x) } : x \in S }
    IN IF next = S THEN S ELSE Closure(next)

(* Job x depends, directly or not, on itself. *)
OnCycle(x) == x \in Closure({ Deps(x)[i] : i \in DOMAIN Deps(x) })

(* A cycle can be reached from job j along dependency edges. *)
CycleReachable(j) == \E x \in Closure({j}) : OnCycle(x)

C25_NoDuplicateEdges ==
    ret.op = "depgraph_complete" =>
        \A k \in DOMAIN ret.value.DEPGRAPH :
            \A i, m \in DOMAIN ret.value.DEPGRAPH[k] :
                ret.value.DEPGRAPH[k][i] = ret.value.DEPGRAPH[k][m] => i = m

----------------------------------------------------------------------------
(* The table and the report of the from_table call that has just ended. *)
Table == ret.value.table
Report == ret.value.report

(* path is a prefix of name, possibly name itself. *)
IsPrefix(path, name) ==
    Len(path) <= Len(name) /\ SubSeq(name, 1, Len(path)) = path

(* The paths of the nodes a table calls for: the prefixes of its names.    *)
NodePaths(table) ==
    UNION { { SubSeq(table[i].name, 1, n) : n \in 0 .. Len(table[i].name) }
            : i \in DOMAIN table }
    \cup {<<>>}

(* The node of a report at a path: the first child of that name, level by  *)
(* level; <<>> if there is none.                                           *)
RECURSIVE NodeAt(_, _)
NodeAt(node, path) ==
    IF path = <<>> THEN <<node>>
    ELSE LET hits == { i \in DOMAIN node.children :
                           node.children[i].name = Head(path) }
         IN IF hits = {} THEN <<>>
            ELSE NodeAt(node.children[CHOOSE i \in hits : \A k \in hits : i <= k],
                        Tail(path))

(* The segments that follow path in the names of a table. *)
NextSegments(table, path) ==
    { table[i].name[Len(path) + 1] :
          i \in { k \in DOMAIN table : IsPrefix(path, table[k].name)
                                        /\ Len(table[k].name) > Len(path) } }

(* The value (field "current" or "total") the table supplies for a path,   *)
(* <<>> if it supplies none.                                               *)
Supplied(table, path, field) ==
    LET rows == { i \in DOMAIN table : table[i].name = path }
    IN IF rows = {} THEN <<>> ELSE table[CHOOSE i \in rows : TRUE][field]

(* The value a node at path is to report: the supplied one, otherwise the  *)
(* sum over the paths one segment longer.                                  *)
RECURSIVE SumOver(_, _, _, _)
RECURSIVE Expected(_, _, _)
Expected(table, path, field) ==
    IF Supplied(table, path, field) # <<>> THEN Supplied(table, path, field)[1]
    ELSE SumOver(table, path, field, NextSegments(table, path))

SumOver(table, path, field, segments) ==
    IF segments = {} THEN 0
    ELSE LET s == CHOOSE x \in segments : TRUE
         IN Expected(table, Append(path, s), field)
            + SumOver(table, path, field, segments \ {s})

(* C26: in the report built from a table, the node at every path reports   *)
(* as current (total) the value the table supplies for that path, if any,  *)
(* whether or not the node has children, and otherwise the sum of what its *)
(* children report.                                                        *)
C26_SuppliedOrSummed ==
    ret.op = "from_table" =>
        \A path \in NodePaths(Table) :
            /\ NodeAt(Report, path) # <<>>
            /\ current(NodeAt(Report, path)[1]) = Expected(Table, path, "current")
            /\ total(NodeAt(Report, path)[1]) = Expected(Table, path, "total")

(* The root is given 3 of 10 and keeps it over a child reporting 1 of 4;   *)
(* the node "parse", given nothing, reports the sum of its child.          *)
C26_Witness ==
    /\ ret.op = "from_table"
    /\ Table = << Row(<<"parse", "x">>, <<1>>, <<4>>), Row(<<>>, <<3>>, <<10>>) >>
    /\ current(Report) = 3 /\ total(Report) = 10
    /\ current(NodeAt(Report, <<"parse">>)[1]) = 1
    /\ total(NodeAt(Report, <<"parse">>)[1]) = 4

(* The first row of a table whose name continues path with segment s. *)
FirstRow(table, path, s) ==
    CHOOSE i \in DOMAIN table :
        /\ IsPrefix(Append(path, s), table[i].name)
        /\ \A k \in 1 .. (i - 1) : ~IsPrefix(Append(path, s), table[k].name)

(* C27: at every node of the report the children are one per segment that  *)
(* follows the node's path in the table, in the order in which the         *)
(* segments first appear in the table.                                     *)
C27_ChildrenInFirstAppearanceOrder ==
    ret.op = "from_table" =>
        \A path \in NodePaths(Table) :
            LET children == NodeAt(Report, path)[1].children
            IN /\ { children[i].name : i \in DOMAIN children }
                    = NextSegments(Table, path)
               /\ \A i, k \in DOMAIN children :
                      i < k => FirstRow(Table, path, children[i].name)
                               < FirstRow(Table, path, children[k].name)

(* "parse" first appears before "fetch": the children of the root are      *)
(* parse, fetch, and fetch, named in two rows, is one child.               *)
C27_Witness ==
    /\ ret.op = "from_table"
    /\ Table = << Row(<<"parse">>, <<1>>, <<4>>), Row(<<"fetch", "x">>, <<3>>, <<10>>),
                  Row(<<"fetch", "y">>, <<1>>, <<4>>) >>
    /\ Len(Report.children) = 2
    /\ Report.children[1].name = "parse" /\ Report.children[2].name = "fetch"
    /\ Len(Report.children[2].children) = 2

----------------------------------------------------------------------------
(* C29: the ids create_build has handed out are strictly increasing in the *)
(* order of creation, deletions in between or not, so that no two builds   *)
(* ever share an id and the id of a deleted build is not handed out again; *)
(* every stored build carries one of these ids.                            *)
C29_BuildIdsStrictlyIncreasing ==
    /\ \A i, k \in DOMAIN created : i < k => created[i] < created[k]
    /\ \A b \in DOMAIN builds :
           builds[b].id = b /\ \E i \in DOMAIN created : created[i] = b

(* A build was created and deleted, and the build created after that is in *)
(* storage under another id.                                               *)
C29_Witness ==
    /\ Len(created) = 2
    /\ created[1] \notin DOMAIN builds
    /\ created[2] \in DOMAIN builds
    /\ ret.op \in {"create_build", "build_job"} /\ ret.build = created[2]

----------------------------------------------------------------------------
(* The messages stored for build k, none if nothing is stored for it. *)
Messages(L, k) == IF k \in DOMAIN L THEN L[k] ELSE <<>>

(* The build ids of the contexts that are on top of the stack at some      *)
(* moment of the step: before it, after it, and the build a run that       *)
(* begins and ends within the step is for.                                 *)
ActiveDuringStep ==
    (IF ctx_stack = <<>> THEN {} ELSE {ctx_stack[Len(ctx_stack)].build_id})
    \cup (IF ctx_stack' = <<>> THEN {} ELSE {ctx_stack'[Len(ctx_stack')].build_id})
    \cup (IF nruns' > nruns /\ ret'.build # NoBuild THEN {ret'.build} ELSE {})

(* C30: a record that is logged while a context is active is appended to   *)
(* the messages of the build of the context on top of the stack, with that *)
(* build's id, and nothing else is written; a record that is logged while  *)
(* no context is active leaves the storage as it was.  The records the     *)
(* engine logs during a run go to the builds whose contexts are on top of  *)
(* the stack in the course of the run, each under its own id.              *)
C30_LogGoesToActiveBuild ==
    [][/\ ret'.op = "emit" =>
              /\ builds' = builds
              /\ IF ctx_stack = <<>>
                 THEN log_messages' = log_messages
                 ELSE LET b == ctx_stack[Len(ctx_stack)].build_id
                      IN /\ DOMAIN log_messages' = DOMAIN log_messages \cup {b}
                         /\ log_messages'[b]
                              = Append(Messages(log_messages, b),
                                       [build_id |-> b, record |-> LogRecord])
                         /\ \A k \in DOMAIN log_messages \ {b} :
                                log_messages'[k] = log_messages[k]
       /\ ret'.op # "delete" =>
              \A k \in DOMAIN log_messages \cup DOMAIN log_messages' :
                  LET old == Messages(log_messages, k)
                      new == Messages(log_messages', k)
                  IN /\ Len(old) <= Len(new)
                     /\ SubSeq(new, 1, Len(old)) = old
                     /\ \A i \in DOMAIN new : new[i].build_id = k
                     /\ Len(old) < Len(new) => k \in ActiveDuringStep
      ]_vars

(* A callable that runs inside another one has logged a record: it is with *)
(* the messages of the inner build, after the one the engine logged for    *)
(* it, and the outer build has its own and the start of the inner run.     *)
C30_Witness ==
    /\ ret.op = "emit"
    /\ Len(ctx_stack) = 2
    /\ ctx_stack[1].build_id # ctx_stack[2].build_id
    /\ Len(Messages(log_messages, ctx_stack[2].build_id)) = 2
    /\ Len(Messages(log_messages, ctx_stack[1].build_id)) = 2

----------------------------------------------------------------------------
(* The arguments and the result of the get_job_builds call that has just   *)
(* ended, and the ids of the stored builds of the job asked for that agree *)
(* with every filter that was given.                                       *)
QueryArgs == ret.value.args
QueryResult == ret.value.builds
Matching ==
    { b \in DOMAIN builds :
          /\ builds[b].job_id = QueryArgs.job_id
          /\ \A key \in {"started", "finished", "success", "skipped"} :
                 QueryArgs[key] # "None" => (builds[b][key] = (QueryArgs[key] = "True")) }

(* C28: get_job_builds yields stored builds of the job asked for that      *)
(* agree with every filter given, in ascending (descending) order of id    *)
(* when order is 'asc' ('desc'); it yields all of them when limit is None  *)
(* or they are no more than limit, and otherwise the limit ones that come  *)
(* first in that order.                                                    *)
C28_QueryYieldsMatchingInOrder ==
    ret.op = "get_job_builds" =>
        LET r == QueryResult
            before(x, y) == IF QueryArgs.order = "asc" THEN x < y ELSE x > y
            yielded == { r[i].id : i \in DOMAIN r }
        IN /\ \A i \in DOMAIN r : r[i].id \in Matching /\ r[i] = builds[r[i].id]
           /\ \A i, k \in DOMAIN r : i < k => before(r[i].id, r[k].id)
           /\ Len(r) = IF QueryArgs.limit = <<>>
                          \/ Cardinality(Matching) <= QueryArgs.limit[1]
                       THEN Cardinality(Matching)
                       ELSE QueryArgs.limit[1]
           /\ \A b \in Matching \ yielded : \A y \in yielded : before(y, b)

(* Two finished builds of job A are stored, one successful and one failed, *)
(* and the query for the finished builds of A, newest first, at most one,  *)
(* has yielded the newer of the two.                                       *)
C28_Witness ==
    /\ ret.op = "get_job_builds"
    /\ QueryArgs = [job_id |-> "A", started |-> "None", finished |-> "True",
                    success |-> "None", skipped |-> "None", order |-> "desc",
                    limit |-> <<1>>]
    /\ Cardinality(Matching) = 2
    /\ \E b \in Matching : builds[b].success
    /\ \E b \in Matching : ~builds[b].success
    /\ Len(QueryResult) = 1
    /\ \A b \in Matching : b <= QueryResult[1].id

----------------------------------------------------------------------------
(* The jobs connected to the jobs in S by dependency edges followed in     *)
(* either direction, S included.                                           *)
RECURSIVE Connected(_)
Connected(S) ==
    LET next == S \cup UNION { { Deps(x)[i] : i \in DOMAIN Deps(x) } : x \in S }
                  \cup { x \in GraphJobIds :
                             \E i \in DOMAIN Deps(x) : Deps(x)[i] \in S }
    IN IF next = S THEN S ELSE Connected(next)

(* C35: the table built for a job without 'complete' is built on every     *)
(* configuration, cyclic ones included; its keys are the jobs that can be  *)
(* reached from the job along dependency edges, the job among them, every  *)
(* key maps to the dependency list configured for it, and every id in a    *)
(* list is a key.                                                          *)
C35_DepgraphIsReachablePart ==
    [][ret'.op = "depgraph" =>
         \A j \in GraphJobIds :
             CreateJobDepgraph(j, FALSE) =>
                 LET g == ret'.value.DEPGRAPH
                 IN /\ DOMAIN g = Closure({j})
                    /\ \A k \in DOMAIN g :
                           /\ g[k] = Deps(k)
                           /\ \A i \in DOMAIN g[k] : g[k][i] \in DOMAIN g]_vars

(* The table has been built for A on the cycle A <- C <- B <- A, D apart.  *)
C35_Witness ==
    /\ config = GraphConfig(<<"B">>, <<"C">>, <<"A">>, <<>>)
    /\ ret.op = "depgraph"
    /\ DOMAIN ret.value.DEPGRAPH = {"A", "B", "C"}
    /\ ret.value.DEPGRAPH["C"] = <<"A">>

(* C36: the table built for a job with complete=True has as keys the jobs  *)
(* connected to the job by dependency edges followed in either direction,  *)
(* and every key maps to the dependency list configured for it.            *)
C36_CompleteDepgraphIsComponent ==
    [][ret'.op = "depgraph_complete" =>
         \A j \in GraphJobIds :
             CreateJobDepgraph(j, TRUE) =>
                 LET g == ret'.value.DEPGRAPH
                 IN /\ DOMAIN g = Connected({j})
                    /\ \A k \in DOMAIN g : g[k] = Deps(k)]_vars

(* The complete table has been built for A, on which B depends together    *)
(* with C, on which D depends: B and D are reached by reverse edges, C as  *)
(* a dependency of B.                                                      *)
C36_Witness ==
    /\ config = GraphConfig(<<>>, <<"A", "C">>, <<>>, <<"C">>)
    /\ ret.op = "depgraph_complete"
    /\ ret.value.DEPGRAPH = [k \in GraphJobIds |-> Deps(k)]
    /\ ret.value.DEPGRAPH["A"] = <<>>

----------------------------------------------------------------------------
(* C38: while the callable of a build of P or of U runs, the value it      *)
(* received for its placeholder of job A is the return value of a build of *)
(* job A that is finished with success = true and skipped = false.         *)
C38_SubstitutedFromSuccessfulBuild ==
    (frames # <<>> /\ RunningBuild.job_id \in {"P", "U"}) =>
        \E s \in DOMAIN builds :
            /\ builds[s].job_id = "A"
            /\ builds[s].finished /\ builds[s].success /\ ~builds[s].skipped
            /\ RunningBuild.job_id = "P" =>
                 Running.args = List(<<List(<<Lit(builds[s].retval)>>)>>)
            /\ RunningBuild.job_id = "U" =>
                 Running.args = List(<<Lit(builds[s].retval)>>)

----------------------------------------------------------------------------
(* C39: a build of P or of U that is run while A, the job of its           *)
(* placeholder, has no successful build does not have its callable         *)
(* invoked; the run ends while the arguments are resolved, nothing reaches *)
(* the caller, the context stack is as it was before the run and the build *)
(* is FAILED.                                                              *)
C39_MissingDependencyFails ==
    /\ (frames # <<>> /\ RunningBuild.job_id \in {"P", "U"}) =>
           SuccessfulBuilds("A") # {}
    /\ (RunEnded /\ ret.build \in DOMAIN builds
          /\ RetBuild.job_id \in {"P", "U"} /\ SuccessfulBuilds("A") = {}) =>
           /\ ret.fn = "args"
           /\ ret.raised = "None"
           /\ ctx_stack = ret.stack_in
           /\ descriptive_status(RetBuild) = "FAILED"

----------------------------------------------------------------------------
(* C37: the execution-context stack mirrors the callables in progress, so  *)
(* the top context is the build whose callable is running, nested runs     *)
(* included, and the outer build is on top again once a nested run has     *)
(* ended; placeholders are resolved against the build being run: a run     *)
(* ends with the ValueError of an undeclared placeholder only if the       *)
(* build that was run has one in its own configuration.                    *)
C37_TopContextIsRunningBuild ==
    /\ Len(ctx_stack) = Len(frames)
    /\ \A i \in DOMAIN frames :
           /\ ctx_stack[i].build_id = frames[i].build_id
           /\ ctx_stack[i].job_id = frames[i].job_id
           /\ ctx_stack[i].token = frames[i].token
    /\ (RunEnded /\ ret.build \in DOMAIN builds
          /\ ret.fn = "args" /\ ret.fexc = "ValueError") =>
           HasUndeclared(RetBuild.config)

(* A build of B, run from inside the callable of a build of A, has         *)
(* received A's return value and returned; the build of A is on top of the *)
(* stack again.                                                            *)
C37_Witness ==
    /\ RunEnded /\ ret.fn = "return" /\ ret.build \in DOMAIN builds
    /\ RetBuild.job_id = "B"
    /\ Len(frames) = 1 /\ Running.job_id = "A"
    /\ ret.stack_in = ctx_stack
    /\ ctx_stack[1].build_id = Running.build_id

----------------------------------------------------------------------------
(* C32: deleting a stored build whose configuration names a cleanup        *)
(* function removes the build from storage and calls the cleanup function  *)
(* with the build, the call ending normally, whether the information of    *)
(* the build was loaded into the BuildInfo or not.                         *)
C32_DeleteCallsCleanup ==
    [][ret'.op = "delete" =>
         \A b \in DOMAIN builds, loaded \in BOOLEAN :
             (Delete(b, loaded) /\ builds[b].config.cleanup_function # "None") =>
                 /\ b \notin DOMAIN builds'
                 /\ ret'.fn = "cleanup" /\ ret'.build = b
                 /\ ret'.raised = "None"]_vars

----------------------------------------------------------------------------
(* C31: a progress report that the storage fails to record raises nothing  *)
(* into the callable that made it, so the callable goes on and the build   *)
(* ends as it would have ended had the entry been recorded.                *)
C31_ProgressFailureIsSwallowed ==
    ret.op = "report_progress" => ret.raised = "None"

----------------------------------------------------------------------------
(* C34: a run at whose end the context on top of the stack was not the one *)
(* the run had pushed (the stack is not left as it was at the call) ends   *)
(* with AssertionError raised to its caller, and the stored build holds    *)
(* the outcome of the callable and not the assertion: SUCCESSFUL when the  *)
(* callable returned, the callable's own exception when it raised.         *)
C34_WrongPopIsRaised ==
    (RunEnded /\ ctx_stack # ret.stack_in) =>
        /\ ~ret.clean
        /\ ret.raised = "AssertionError"
        /\ ret.build \in DOMAIN builds =>
             /\ RetBuild.exception # "AssertionError"
             /\ ret.fn = "return" => descriptive_status(RetBuild) = "SUCCESSFUL"
             /\ ret.fn = "raise" => RetBuild.exception = ret.fexc

(* A callable pushed a context of its own and returned: the run ended with *)
(* the assertion raised, the build stored as SUCCESSFUL, and the context   *)
(* of the run is still on the stack.                                       *)
C34_Witness ==
    /\ RunEnded /\ ret.fn = "return"
    /\ ~ret.clean /\ ret.raised = "AssertionError"
    /\ ret.stack_in = <<>>
    /\ Len(ctx_stack) = 1 /\ ctx_stack[1].build_id = ret.build
    /\ descriptive_status(RetBuild) = "SUCCESSFUL"

----------------------------------------------------------------------------
(* Job J and each of its dependencies have a successful build. *)
AllBuilt ==
    /\ SuccessfulBuilds("J") # {}
    /\ \A i \in DOMAIN Deps("J") : SuccessfulBuilds(Deps("J")[i]) # {}

(* A build of job j has just finished as successful and not skipped. *)
JustSucceeded(j) ==
    /\ RunEnded /\ ret.fn = "return"
    /\ ret.build \in DOMAIN builds
    /\ RetBuild.job_id = j
    /\ ret.build \in SuccessfulBuilds(j)

----------------------------------------------------------------------------
====
